---- MODULE Spec2Model ----
(***************************************************************************)
(* Model of the plane-cut mesh slicer (Slicer, "EXY SLICE VER 3.js" as     *)
(* listed in FRUIT_SETUP_GUIDE.md) and of the sword / fruit hit detection  *)
(* (VRSword in swordComponent.js, SliceableFruit in                        *)
(* VRSLICEABLEFRUITNEW.js).                                                *)
(*                                                                         *)
(* JavaScript numbers are modelled by exact rationals <<n, d>> (d > 0,     *)
(* lowest terms); <<0, 0>> stands for the result of a division by zero.    *)
(* Optional values (an attribute that may be missing, a null result) are   *)
(* sequences of length 0 or 1.                                             *)
(***************************************************************************)
EXTENDS Integers, Sequences, FiniteSets, TLC

(***************************************************************************)
(* Bounds of the explored inputs.                                          *)
(***************************************************************************)
\* probe triangles take their three heights in -MaxD .. MaxD
MaxD == 1
\* the sliced object's world position is (0, w, 0) with w in -MaxW .. MaxW
MaxW == 1

(***************************************************************************)
(* Exact arithmetic.                                                       *)
(***************************************************************************)
Abs(x) == IF x < 0 THEN -x ELSE x

RECURSIVE GCD(_, _)
GCD(a, b) == IF b = 0 THEN a ELSE GCD(b, a % b)

Rat(n, d) ==
    IF d = 0 THEN <<0, 0>>
    ELSE LET s == IF d < 0 THEN -1 ELSE 1
             g == GCD(Abs(n), Abs(d))
         IN  <<(s * n) \div g, (s * d) \div g>>

R(n) == <<n, 1>>
RAdd(a, b) == Rat(a[1] * b[2] + b[1] * a[2], a[2] * b[2])
RSub(a, b) == Rat(a[1] * b[2] - b[1] * a[2], a[2] * b[2])
RMul(a, b) == Rat(a[1] * b[1], a[2] * b[2])
RDiv(a, b) == Rat(a[1] * b[2], a[2] * b[1])
\* n1/d1 < n2/d2 for d1, d2 > 0, by comparing integer parts and then the
\* reciprocals of the fractional parts (no product of large numbers is formed)
RECURSIVE FracLt(_, _, _, _)
FracLt(n1, d1, n2, d2) ==
    LET q1 == n1 \div d1
        q2 == n2 \div d2
        r1 == n1 % d1
        r2 == n2 % d2
    IN  IF q1 # q2 THEN q1 < q2
        ELSE IF r2 = 0 THEN FALSE
        ELSE IF r1 = 0 THEN TRUE
        ELSE FracLt(d2, r2, d1, r1)
\* a < b; a comparison with the result of a division by zero is false
RLt(a, b) == a[2] # 0 /\ b[2] # 0 /\ FracLt(a[1], a[2], b[1], b[2])
RLe(a, b) == a[2] # 0 /\ b[2] # 0 /\ ~FracLt(b[1], b[2], a[1], a[2])
RIsNaN(a) == a[2] = 0
\* Math.sign
Sign(a) == IF a[1] > 0 THEN 1 ELSE IF a[1] < 0 THEN -1 ELSE 0
\* Math.abs
RAbs(a) == <<Abs(a[1]), a[2]>>

Vec3(x, y, z) == <<R(x), R(y), R(z)>>
VSub(a, b) == <<RSub(a[1], b[1]), RSub(a[2], b[2]), RSub(a[3], b[3])>>
VNeg(a) == <<RSub(R(0), a[1]), RSub(R(0), a[2]), RSub(R(0), a[3])>>
Dot(a, b) == RAdd(RAdd(RMul(a[1], b[1]), RMul(a[2], b[2])), RMul(a[3], b[3]))
Cross(a, b) ==
    <<RSub(RMul(a[2], b[3]), RMul(a[3], b[2])),
      RSub(RMul(a[3], b[1]), RMul(a[1], b[3])),
      RSub(RMul(a[1], b[2]), RMul(a[2], b[1]))>>
ZeroVec == Vec3(0, 0, 0)

\* v / |v| for v # 0, represented exactly by the primitive integer vector of
\* the same direction
Direction(v) ==
    LET m  == v[1][2] * v[2][2] * v[3][2]
        a  == v[1][1] * (m \div v[1][2])
        b  == v[2][1] * (m \div v[2][2])
        c  == v[3][1] * (m \div v[3][2])
        g  == GCD(GCD(Abs(a), Abs(b)), Abs(c))
    IN  <<R(a \div g), R(b \div g), R(c \div g)>>

\* a normal as stored in a vertex: the vector itself, or the unit vector of
\* a direction
RawNormal(v) == [unit |-> FALSE, v |-> v]
UnitNormal(v) == [unit |-> TRUE, v |-> Direction(v)]

Some(x) == <<x>>
None == <<>>
IsSome(o) == Len(o) = 1
Val(o) == o[1]

(***************************************************************************)
(* Source meshes.  A mesh is [positions, normals, texCoords, indexData],   *)
(* each an optional sequence; vertex indices are 0-based as in the code.   *)
(***************************************************************************)
Half(n) == Rat(n, 2)

\* the unit cube, vertices at +-0.5, 12 outward-facing triangles
CubePositions ==
    << <<Half(-1), Half(-1), Half(-1)>>, <<Half(1), Half(-1), Half(-1)>>,
       <<Half(-1), Half(1),  Half(-1)>>, <<Half(1), Half(1),  Half(-1)>>,
       <<Half(-1), Half(-1), Half(1)>>,  <<Half(1), Half(-1), Half(1)>>,
       <<Half(-1), Half(1),  Half(1)>>,  <<Half(1), Half(1),  Half(1)>> >>
CubeTriangles ==
    << <<0, 1, 5>>, <<0, 5, 4>>, <<2, 7, 3>>, <<2, 6, 7>>,
       <<4, 5, 7>>, <<4, 7, 6>>, <<0, 3, 1>>, <<0, 2, 3>>,
       <<1, 3, 7>>, <<1, 7, 5>>, <<0, 6, 2>>, <<0, 4, 6>> >>

\* a tetrahedron with its apex at height 1 and its base at height -1
TetraPositions ==
    << Vec3(0, 1, 0), Vec3(-1, -1, -1), Vec3(1, -1, -1), Vec3(0, -1, 1) >>
TetraTriangles ==
    << <<1, 2, 3>>, <<0, 2, 1>>, <<0, 3, 2>>, <<0, 1, 3>> >>

\* one triangle over fixed ground points, with the heights y0, y1, y2
ProbePositions(y0, y1, y2) ==
    << <<R(0), R(y0), R(0)>>, <<R(1), R(y1), R(0)>>, <<R(0), R(y2), R(1)>> >>

\* the index buffer of a triangle list, each triangle rotated by r places
\* (a rotation keeps the winding)
RECURSIVE FlattenRot(_, _)
FlattenRot(tris, r) ==
    IF tris = <<>> THEN <<>>
    ELSE LET t == Head(tris)
         IN  <<t[1 + (r % 3)], t[1 + ((r + 1) % 3)], t[1 + ((r + 2) % 3)]>>
             \o FlattenRot(Tail(tris), r)

TexOf(p) == <<p[1], p[3]>>

MeshOf(pos, tris, r) ==
    [positions |-> Some(pos),
     normals   |-> Some([i \in 1..Len(pos) |-> pos[i]]),
     texCoords |-> Some([i \in 1..Len(pos) |-> TexOf(pos[i])]),
     indexData |-> Some(FlattenRot(tris, r))]

Heights == (0 - MaxD)..MaxD
ProbeMeshes ==
    {MeshOf(ProbePositions(y0, y1, y2), << <<0, 1, 2>> >>, 0) :
        y0 \in Heights, y1 \in Heights, y2 \in Heights}
CubeMeshes == {MeshOf(CubePositions, CubeTriangles, r) : r \in 0..2}
TetraMeshes == {MeshOf(TetraPositions, TetraTriangles, r) : r \in 0..2}
Meshes == ProbeMeshes \cup CubeMeshes \cup TetraMeshes

\* a mesh as the engine hands it over: an attribute may be absent
WithAttributes(m, hasPos, hasNorm, hasTex, hasIdx) ==
    [positions |-> IF hasPos THEN m.positions ELSE None,
     normals   |-> IF hasNorm THEN m.normals ELSE None,
     texCoords |-> IF hasTex THEN m.texCoords ELSE None,
     indexData |-> IF hasIdx THEN m.indexData ELSE None]

PlaneNormals == {Vec3(0, 1, 0), Vec3(1, 1, 0)}
WorldPositions == {Vec3(0, w, 0) : w \in (0 - MaxW)..MaxW}
\* the default [0, 0, 0] and another setting of the property
PlanePoints == {Vec3(0, 0, 0), Vec3(0, 1, 0)}

(***************************************************************************)
(* Slicer: the pure routines.                                              *)
(***************************************************************************)
getVertexData(index, positions, normals, texCoords) ==
    [position |-> positions[index + 1],
     normal   |-> IF IsSome(normals)
                  THEN Some(RawNormal(Val(normals)[index + 1])) ELSE None,
     texCoord |-> IF IsSome(texCoords)
                  THEN Some(Val(texCoords)[index + 1]) ELSE None]

getSideOfPlane(vertex, planePoint, normal) ==
    LET dx == RSub(vertex[1], planePoint[1])
        dy == RSub(vertex[2], planePoint[2])
        dz == RSub(vertex[3], planePoint[3])
    IN  RAdd(RAdd(RMul(normal[1], dx), RMul(normal[2], dy)), RMul(normal[3], dz))

\* variant: the indices are counted from one
addTriangleOneBased(vertices, indices, v0, v1, v2) ==
    LET baseIndex == Len(vertices) + 1
    IN  [vertices |-> vertices \o <<v0, v1, v2>>,
         indices  |-> indices \o <<baseIndex, baseIndex + 1, baseIndex + 2>>]

\* variant: the last two vertices are pushed in the other order
addTriangleSwapped(vertices, indices, v0, v1, v2) ==
    LET baseIndex == Len(vertices)
    IN  [vertices |-> vertices \o <<v0, v2, v1>>,
         indices  |-> indices \o <<baseIndex, baseIndex + 1, baseIndex + 2>>]
addTriangle(vertices, indices, v0, v1, v2) ==
    LET baseIndex == Len(vertices)
    IN  [vertices |-> vertices \o <<v0, v1, v2>>,
         indices  |-> indices \o <<baseIndex, baseIndex + 1, baseIndex + 2>>]

\* the branch sliceMesh takes for a triangle with the signs side0..side2
Classify(side0, side1, side2) ==
    LET sidesSum == side0 + side1 + side2
    IN  IF sidesSum = 3 THEN "AllAbove"
        ELSE IF sidesSum = -3 THEN "AllBelow"
        ELSE IF sidesSum = 0 /\ (side0 = 0 \/ side1 = 0 \/ side2 = 0)
             THEN "OnPlane"
        ELSE "Straddle"

\* Array.prototype.sort with the comparator (a, b) => a.d - b.d (stable)
RECURSIVE InsertByD(_, _)
InsertByD(x, s) ==
    IF s = <<>> THEN <<x>>
    ELSE IF RLt(x.d, Head(s).d) THEN <<x>> \o s
    ELSE <<Head(s)>> \o InsertByD(x, Tail(s))
RECURSIVE SortAcc(_, _)
SortAcc(s, acc) ==
    IF s = <<>> THEN acc ELSE SortAcc(Tail(s), InsertByD(Head(s), acc))
SortByD(s) == SortAcc(s, <<>>)

Lerp(a, b, t) == RAdd(a, RMul(RSub(b, a), t))

\* variant: an attribute only the first vertex has is taken from it
interpolateVertexKeepFirst(v1, v2, t) ==
    LET position == <<Lerp(v1.position[1], v2.position[1], t),
                      Lerp(v1.position[2], v2.position[2], t),
                      Lerp(v1.position[3], v2.position[3], t)>>
        n1 == Val(v1.normal).v
        n2 == Val(v2.normal).v
        n  == <<Lerp(n1[1], n2[1], t), Lerp(n1[2], n2[2], t), Lerp(n1[3], n2[3], t)>>
        normal == IF n # ZeroVec /\ \A k \in 1..3 : ~RIsNaN(n[k])
                  THEN UnitNormal(n) ELSE RawNormal(n)
        uv1 == Val(v1.texCoord)
        uv2 == Val(v2.texCoord)
    IN  [position |-> position,
         normal   |-> IF IsSome(v1.normal) /\ IsSome(v2.normal)
                      THEN Some(normal) ELSE v1.normal,
         texCoord |-> IF IsSome(v1.texCoord) /\ IsSome(v2.texCoord)
                      THEN Some(<<Lerp(uv1[1], uv2[1], t), Lerp(uv1[2], uv2[2], t)>>)
                      ELSE v1.texCoord]

interpolateVertex(v1, v2, t) ==
    LET position == <<Lerp(v1.position[1], v2.position[1], t),
                      Lerp(v1.position[2], v2.position[2], t),
                      Lerp(v1.position[3], v2.position[3], t)>>
        n1 == Val(v1.normal).v
        n2 == Val(v2.normal).v
        n  == <<Lerp(n1[1], n2[1], t), Lerp(n1[2], n2[2], t), Lerp(n1[3], n2[3], t)>>
        \* len > 0 exactly when the interpolated vector is a vector of numbers
        \* and not zero
        normal == IF n # ZeroVec /\ \A k \in 1..3 : ~RIsNaN(n[k])
                  THEN UnitNormal(n) ELSE RawNormal(n)
        uv1 == Val(v1.texCoord)
        uv2 == Val(v2.texCoord)
    IN  [position |-> position,
         normal   |-> IF IsSome(v1.normal) /\ IsSome(v2.normal)
                      THEN Some(normal) ELSE None,
         texCoord |-> IF IsSome(v1.texCoord) /\ IsSome(v2.texCoord)
                      THEN Some(<<Lerp(uv1[1], uv2[1], t), Lerp(uv1[2], uv2[2], t)>>)
                      ELSE None]

\* the six buffers sliceMesh builds
EmptyBuffers ==
    [upperVerts |-> <<>>, lowerVerts |-> <<>>,
     upperIndices |-> <<>>, lowerIndices |-> <<>>,
     upperContour |-> <<>>, lowerContour |-> <<>>]

\* variant: the triangle is added to both hulls
AddUpperToBoth(b, a, c, e) ==
    LET u == addTriangle(b.upperVerts, b.upperIndices, a, c, e)
        l == addTriangle(b.lowerVerts, b.lowerIndices, a, c, e)
    IN  [b EXCEPT !.upperVerts = u.vertices, !.upperIndices = u.indices,
                  !.lowerVerts = l.vertices, !.lowerIndices = l.indices]
AddUpper(b, a, c, e) ==
    LET r == addTriangle(b.upperVerts, b.upperIndices, a, c, e)
    IN  [b EXCEPT !.upperVerts = r.vertices, !.upperIndices = r.indices]
\* variant: the triangle is not added
AddLowerDropped(b, a, c, e) == b
AddLower(b, a, c, e) ==
    LET r == addTriangle(b.lowerVerts, b.lowerIndices, a, c, e)
    IN  [b EXCEPT !.lowerVerts = r.vertices, !.lowerIndices = r.indices]
\* variant: the points are recorded for the lower hull only
PushContoursLowerOnly(b, p1, p2) ==
    [b EXCEPT !.lowerContour = @ \o <<p1, p2>>]
PushContours(b, p1, p2) ==
    [b EXCEPT !.upperContour = @ \o <<p1, p2>>,
              !.lowerContour = @ \o <<p1, p2>>]

\* variant: the distances are taken with their signs
IntersectionParamSigned(dA, dB) == RDiv(dA, RAdd(dA, dB))

\* Math.abs(a.d) / (Math.abs(a.d) + Math.abs(b.d))
IntersectionParam(dA, dB) == RDiv(RAbs(dA), RAdd(RAbs(dA), RAbs(dB)))

splitTriangle(v0, v1, v2, d0, d1, d2, b, i0, i1, i2) ==
    LET verts == SortByD(<< [v |-> v0, d |-> d0, i |-> i0],
                            [v |-> v1, d |-> d1, i |-> i1],
                            [v |-> v2, d |-> d2, i |-> i2] >>)
        vMin == verts[1]
        vMid == verts[2]
        vMax == verts[3]
    IN  IF Sign(vMin.d) = Sign(vMid.d)
        THEN \* 2-1 split
             LET v2Same == vMid
                 v1Diff == vMax
                 t1 == IntersectionParam(vMin.d, v1Diff.d)
                 t2 == IntersectionParam(v2Same.d, v1Diff.d)
                 vInt1 == interpolateVertex(vMin.v, v1Diff.v, t1)
                 vInt2 == interpolateVertex(v2Same.v, v1Diff.v, t2)
                 contourPt1 == [position |-> vInt1.position,
                                edgeVerts |-> <<vMin.i, v1Diff.i>>]
                 contourPt2 == [position |-> vInt2.position,
                                edgeVerts |-> <<v2Same.i, v1Diff.i>>]
             IN  IF RLt(vMin.d, R(0))
                 THEN PushContours(
                        AddUpper(AddLower(AddLower(b, vMin.v, v2Same.v, vInt1),
                                          v2Same.v, vInt2, vInt1),
                                 vInt1, vInt2, v1Diff.v),
                        contourPt1, contourPt2)
                 ELSE PushContours(
                        AddLower(AddUpper(AddUpper(b, vMin.v, v2Same.v, vInt1),
                                          v2Same.v, vInt2, vInt1),
                                 vInt1, vInt2, v1Diff.v),
                        contourPt1, contourPt2)
        ELSE \* 1-2 split
             LET v1Same == vMin
                 v2Diff == vMid
                 t1 == IntersectionParam(v1Same.d, v2Diff.d)
                 t2 == IntersectionParam(v1Same.d, vMax.d)
                 vInt1 == interpolateVertex(v1Same.v, v2Diff.v, t1)
                 vInt2 == interpolateVertex(v1Same.v, vMax.v, t2)
                 contourPt1 == [position |-> vInt1.position,
                                edgeVerts |-> <<v1Same.i, v2Diff.i>>]
                 contourPt2 == [position |-> vInt2.position,
                                edgeVerts |-> <<v1Same.i, vMax.i>>]
             IN  IF RLt(v1Same.d, R(0))
                 THEN PushContours(
                        AddUpper(AddUpper(AddLower(b, v1Same.v, vInt1, vInt2),
                                          vInt1, v2Diff.v, vMax.v),
                                 vInt1, vMax.v, vInt2),
                        contourPt1, contourPt2)
                 ELSE PushContours(
                        AddLower(AddLower(AddUpper(b, v1Same.v, vInt1, vInt2),
                                          vInt1, v2Diff.v, vMax.v),
                                 vInt1, vMax.v, vInt2),
                        contourPt1, contourPt2)

\* epsilon * epsilon with epsilon = 0.0001
EpsilonSquared == <<1, 100000000>>

DistSq(p, q) ==
    LET dx == RSub(p[1], q[1])
        dy == RSub(p[2], q[2])
        dz == RSub(p[3], q[3])
    IN  RAdd(RAdd(RMul(dx, dx), RMul(dy, dy)), RMul(dz, dz))

\* variant: a point is compared with the last kept point only
isDuplicateOfLast(uniqueContour, pt) ==
    /\ uniqueContour # <<>>
    /\ RLt(DistSq(uniqueContour[Len(uniqueContour)].position, pt.position),
           EpsilonSquared)
isDuplicate(uniqueContour, pt) ==
    \E k \in 1..Len(uniqueContour) :
        RLt(DistSq(uniqueContour[k].position, pt.position), EpsilonSquared)

RECURSIVE Dedup(_, _)
Dedup(contour, uniqueContour) ==
    IF contour = <<>> THEN uniqueContour
    ELSE Dedup(Tail(contour),
               IF isDuplicate(uniqueContour, Head(contour))
               THEN uniqueContour
               ELSE Append(uniqueContour, Head(contour)))

RECURSIVE SumPositions(_)
SumPositions(pts) ==
    IF pts = <<>> THEN ZeroVec
    ELSE LET s == SumPositions(Tail(pts))
             p == Head(pts).position
         IN  <<RAdd(p[1], s[1]), RAdd(p[2], s[2]), RAdd(p[3], s[3])>>

\* variant: the first point is taken for the centroid
CentroidIsFirst(pts) == pts[1].position

Centroid(pts) ==
    LET s == SumPositions(pts)
        n == R(Len(pts))
    IN  <<RDiv(s[1], n), RDiv(s[2], n), RDiv(s[3], n)>>

CapVertex(position, capNormal) ==
    [position |-> position,
     normal   |-> Some(RawNormal(capNormal)),
     texCoord |-> Some(<<Half(1), Half(1)>>)]

RECURSIVE FanIndices(_, _, _, _, _)
FanIndices(i, n, baseIndex, contourStartIndex, isUpper) ==
    IF i >= n THEN <<>>
    ELSE LET next == (i + 1) % n
         IN  (IF isUpper
              THEN <<baseIndex, contourStartIndex + i, contourStartIndex + next>>
              ELSE <<baseIndex, contourStartIndex + next, contourStartIndex + i>>)
             \o FanIndices(i + 1, n, baseIndex, contourStartIndex, isUpper)

\* variant: two points are enough for a cap
TooFewBelowTwo(n) == n < 2

\* 'if (contour.length < 3) return' and 'if (uniqueContour.length < 3) return'
TooFew(n) == n < 3

generateCap(vertices, indices, contour, isUpper, slicePlaneNormal) ==
    LET uniqueContour == Dedup(contour, <<>>)
        n == Len(uniqueContour)
        capNormal == IF isUpper THEN slicePlaneNormal ELSE VNeg(slicePlaneNormal)
        baseIndex == Len(vertices)
        contourStartIndex == baseIndex + 1
    IN  IF TooFew(Len(contour)) THEN [vertices |-> vertices, indices |-> indices]
        ELSE IF TooFew(n) THEN [vertices |-> vertices, indices |-> indices]
        ELSE [vertices |-> vertices
                           \o <<CapVertex(Centroid(uniqueContour), capNormal)>>
                           \o [k \in 1..n |->
                                 CapVertex(uniqueContour[k].position, capNormal)],
              indices  |-> indices
                           \o FanIndices(0, n, baseIndex, contourStartIndex, isUpper)]

(***************************************************************************)
(* Slicer: createMeshObject and makeItPhysical.                            *)
(***************************************************************************)
\* bits per index of the typed array createMeshObject allocates
IndexBits(vertexCount) == IF vertexCount > 65535 THEN 32 ELSE 16

\* the non-splitting Slicer always allocates a Uint16Array
IndexBitsPlain(vertexCount) == 16

\* conversion of a number to an element of a Uint16Array / Uint32Array
\* (the indices of the model stay below 2^31, where modulo 2^32 changes nothing)
ToUint16(x) == x % 65536
ToUint32(x) == x

\* new Uint16Array(indices) / new Uint32Array(indices)
TypedArray(bits, indices) ==
    [k \in 1..Len(indices) |->
        IF bits = 16 THEN ToUint16(indices[k]) ELSE ToUint32(indices[k])]

\* the parameters createMeshObject hands to engine.meshes.create
MeshParameters(vertexCount, indices, bits) ==
    [vertexCount |-> vertexCount, indexBits |-> bits,
     indexData |-> TypedArray(bits, indices)]

\* variant: the new object gets a rigid body as it is created
NewObjectWithBody(kind, worldPos) ==
    [kind |-> kind, position |-> worldPos, mesh |-> None,
     physx |-> Some([mass |-> R(1), kinematic |-> FALSE])]

\* scene.addObject(parent) followed by setTransformLocal(copy of the original's)
NewObject(kind, worldPos) ==
    [kind |-> kind, position |-> worldPos, mesh |-> None, physx |-> None]

\* the mesh resource of a hull and the object's mesh component
MeshResource(vertices, indices) ==
    [vertexCount |-> Len(vertices),
     indexData |-> TypedArray(IndexBits(Len(vertices)), indices),
     indexBits |-> IndexBits(Len(vertices)), vertices |-> vertices]

\* scale[0] * scale[1] * scale[2] of the copied transform
OrigScaling == Vec3(1, 1, 1)
Density == R(1000)
makeItPhysical(obj, physxCreated) ==
    IF ~physxCreated THEN obj
    ELSE LET volume == RMul(RMul(OrigScaling[1], OrigScaling[2]), OrigScaling[3])
             mass == IF IsSome(obj.mesh)
                     THEN RMul(RMul(volume, Density), Half(1))
                     ELSE R(1)
         IN  [obj EXCEPT !.physx = Some([mass |-> mass, kinematic |-> FALSE])]

\* variant: only the index data is looked at
MissingIndexData(positions, indices) == ~IsSome(indices)

\* 'if (!positions || !indices) return null'
MissingData(positions, indices) == ~IsSome(positions) \/ ~IsSome(indices)

\* variant: null only when both hulls are empty
EmptyHullBoth(upperVerts, lowerVerts) == Len(upperVerts) = 0 /\ Len(lowerVerts) = 0

\* "Validate we have geometry"
EmptyHull(upperVerts, lowerVerts) == Len(upperVerts) = 0 \/ Len(lowerVerts) = 0

\* variant: 'if (sliceResult !== undefined)', which null passes
SliceNotUndefined(result) == result \in {"hulls", "null"}

\* the test 'if (sliceResult)' of update
SliceSucceeded(result) == result = "hulls"

(***************************************************************************)
(* State.                                                                  *)
(***************************************************************************)
VARIABLES
    \* the object to be sliced and the Slicer's fields
    mesh,            \* attributes and index data of the original mesh
    origHasMesh,     \* the original object has a mesh component with a mesh
    origWorldPos,    \* originalObj.getPositionWorld()
    origAlive,       \* the original object has not been destroyed
    slicePlaneNormal,
    slicePlanePoint,
    isTouched,
    \* position in update / sliceMesh
    pc,
    i,               \* loop variable of the triangle loop
    upperVertices, lowerVertices, upperIndices, lowerIndices,
    upperContour, lowerContour,
    branches,        \* the branch taken for each triangle processed so far
    sliceResult,     \* "none", "null", "thrown" or "hulls"
    upperHull, lowerHull,  \* index in objects of the hull created by this call, or 0
    objects,         \* the objects created in the scene, in creation order
    failures,        \* number of engine allocation failures so far
    prevCall,        \* the buffers and the mesh of the sliceMesh call before this one
    \* VRSword and the fruits
    fruits, sliceableFruits, currentPos, lastPos, cacheRefreshTimer,
    alwaysCheckHits, score, addScoreCalls, destroyCalls, hitDelivered,
    hitFruitCalls,   \* number of times each fruit was handed to hitFruit
    \* createMeshObject on a hull with many vertices
    bigVariant,      \* "ver3" (the splitting Slicer) or "plain" (the non-splitting)
    bigVertexCount,  \* number of vertices of the hull
    bigIndices,      \* (part of) the hull's index list
    bigMesh,         \* what engine.meshes.create was called with, if it was
    \* generateCap on a contour of points that are about epsilon apart
    capVertices, capIndices,  \* the hull before the call
    capContour, capIsUpper,
    capUnique,       \* uniqueContour when the deduplication loop is left, if it ran
    capResult,       \* the hull when generateCap has returned, if it was called
    \* interpolateVertex on two vertices with any attributes
    lerpV1, lerpV2, lerpT,
    lerpResult,      \* the vertex returned, if it was called
    \* sliceMesh of the non-splitting Slicer
    plainPc,
    plainI,          \* loop variable of the triangle loop
    vertexMap,       \* original index -> slot in the upper and in the lower hull
    upperVertexCount, lowerVertexCount,
    plainUpper, plainLower,  \* the vertices, normals, texCoords and indices of a hull
    plainSources,    \* for each hull, the original index of each vertex pushed
    plainMeshes      \* what engine.meshes.create was called with for the hulls

slicerVars ==
    <<mesh, origHasMesh, origWorldPos, origAlive, slicePlaneNormal,
      slicePlanePoint, isTouched,
      pc, i, upperVertices, lowerVertices, upperIndices, lowerIndices,
      upperContour, lowerContour, branches, sliceResult, upperHull, lowerHull,
      objects, failures, prevCall>>
swordVars ==
    <<fruits, sliceableFruits, currentPos, lastPos, cacheRefreshTimer,
      alwaysCheckHits, score, addScoreCalls, destroyCalls, hitDelivered,
      hitFruitCalls>>
bigVars == <<bigVariant, bigVertexCount, bigIndices, bigMesh>>
capVars == <<capVertices, capIndices, capContour, capIsUpper, capUnique, capResult>>
lerpVars == <<lerpV1, lerpV2, lerpT, lerpResult>>
plainVars ==
    <<plainPc, plainI, vertexMap, upperVertexCount, lowerVertexCount,
      plainUpper, plainLower, plainSources, plainMeshes>>
vars == <<slicerVars, swordVars, bigVars, capVars, lerpVars, plainVars>>

bufferVars ==
    <<upperVertices, lowerVertices, upperIndices, lowerIndices,
      upperContour, lowerContour>>
inputVars == <<mesh, origHasMesh, origWorldPos, slicePlaneNormal, slicePlanePoint>>

\* engine allocation failures explored per behaviour
MaxFailures == 1

(***************************************************************************)
(* The triangle sliceMesh is looking at.                                   *)
(***************************************************************************)
Positions == Val(mesh.positions)
Indices == Val(mesh.indexData)
TriangleCount == Len(Indices) \div 3

Index0(k) == Indices[k + 1]
Index1(k) == Indices[k + 2]
Index2(k) == Indices[k + 3]
Vertex(index) == getVertexData(index, Positions, mesh.normals, mesh.texCoords)
Distance(index) ==
    getSideOfPlane(Vertex(index).position, origWorldPos, slicePlaneNormal)
Topology(k) ==
    Classify(Sign(Distance(Index0(k))), Sign(Distance(Index1(k))),
             Sign(Distance(Index2(k))))

Buffers ==
    [upperVerts |-> upperVertices, lowerVerts |-> lowerVertices,
     upperIndices |-> upperIndices, lowerIndices |-> lowerIndices,
     upperContour |-> upperContour, lowerContour |-> lowerContour]

SetBuffers(b) ==
    /\ upperVertices' = b.upperVerts
    /\ lowerVertices' = b.lowerVerts
    /\ upperIndices' = b.upperIndices
    /\ lowerIndices' = b.lowerIndices
    /\ upperContour' = b.upperContour
    /\ lowerContour' = b.lowerContour

(***************************************************************************)
(* Slicer.update and sliceMesh, step by step.                              *)
(***************************************************************************)
\* something touches the slicer (isTouched is set from outside)
Touch ==
    /\ pc = "idle" /\ ~isTouched
    /\ isTouched' = TRUE
    /\ UNCHANGED <<swordVars, bigVars, capVars, lerpVars, plainVars, inputVars, prevCall, origAlive, pc, i, bufferVars, branches,
                   sliceResult, upperHull, lowerHull, objects, failures>>

\* update with no object to slice: checkForSlicableObjects as written returns
\* the empty list; an implementation of the placeholder returns the objects hit
UpdateNoObjects ==
    /\ pc = "idle" /\ isTouched
    /\ isTouched' = FALSE
    /\ UNCHANGED <<swordVars, bigVars, capVars, lerpVars, plainVars, inputVars, prevCall, origAlive, pc, i, bufferVars, branches,
                   sliceResult, upperHull, lowerHull, objects, failures>>

\* the object has no mesh component or no mesh: the callback returns
UpdateNoMesh ==
    /\ pc = "idle" /\ isTouched /\ origAlive
    /\ ~origHasMesh
    /\ isTouched' = FALSE
    /\ UNCHANGED <<swordVars, bigVars, capVars, lerpVars, plainVars, inputVars, prevCall, origAlive, pc, i, bufferVars, branches,
                   sliceResult, upperHull, lowerHull, objects, failures>>

\* sliceMesh on a mesh without positions or without index data returns null
SliceUnslicable ==
    /\ pc = "idle" /\ isTouched /\ origAlive
    /\ origHasMesh
    /\ MissingData(mesh.positions, mesh.indexData)
    /\ isTouched' = FALSE
    /\ sliceResult' = "null"
    /\ upperHull' = 0 /\ lowerHull' = 0
    /\ pc' = "returned"
    /\ UNCHANGED <<swordVars, bigVars, capVars, lerpVars, plainVars, inputVars, prevCall, origAlive, i, bufferVars, branches,
                   objects, failures>>

\* an earlier sliceMesh call has come to its end
CallEnded == sliceResult \in {"null", "thrown"}

\* variant: the buffers are kept from one call to the next
SliceBeginKeepsBuffers ==
    /\ pc = "idle" /\ isTouched /\ origAlive
    /\ origHasMesh
    /\ ~MissingData(mesh.positions, mesh.indexData)
    /\ isTouched' = FALSE
    /\ pc' = "loop"
    /\ i' = 0
    /\ branches' = <<>>
    /\ sliceResult' = "none"
    /\ upperHull' = 0 /\ lowerHull' = 0
    /\ prevCall' = IF CallEnded THEN Some([buffers |-> Buffers, mesh |-> mesh])
                   ELSE prevCall
    /\ UNCHANGED <<swordVars, bigVars, capVars, lerpVars, plainVars, inputVars, origAlive, objects, failures,
                   bufferVars>>

\* sliceMesh starts: fresh buffers
SliceBegin ==
    /\ pc = "idle" /\ isTouched /\ origAlive
    /\ origHasMesh
    /\ ~MissingData(mesh.positions, mesh.indexData)
    /\ isTouched' = FALSE
    /\ pc' = "loop"
    /\ i' = 0
    /\ SetBuffers(EmptyBuffers)
    /\ branches' = <<>>
    /\ sliceResult' = "none"
    /\ upperHull' = 0 /\ lowerHull' = 0
    /\ prevCall' = IF CallEnded THEN Some([buffers |-> Buffers, mesh |-> mesh])
                   ELSE prevCall
    /\ UNCHANGED <<swordVars, bigVars, capVars, lerpVars, plainVars, inputVars, origAlive, objects, failures>>

LoopStep(topology) ==
    /\ pc = "loop" /\ i < Len(Indices)
    /\ Topology(i) = topology
    /\ i' = i + 3
    /\ branches' = Append(branches, topology)
    /\ UNCHANGED <<swordVars, bigVars, capVars, lerpVars, plainVars, inputVars, prevCall, origAlive, isTouched, pc, sliceResult,
                   upperHull, lowerHull, objects, failures>>

StepAllAbove ==
    /\ LoopStep("AllAbove")
    /\ SetBuffers(AddUpper(Buffers, Vertex(Index0(i)), Vertex(Index1(i)),
                           Vertex(Index2(i))))

StepAllBelow ==
    /\ LoopStep("AllBelow")
    /\ SetBuffers(AddLower(Buffers, Vertex(Index0(i)), Vertex(Index1(i)),
                           Vertex(Index2(i))))

StepOnPlane ==
    /\ LoopStep("OnPlane")
    /\ SetBuffers(AddUpper(Buffers, Vertex(Index0(i)), Vertex(Index1(i)),
                           Vertex(Index2(i))))

StepStraddle ==
    /\ LoopStep("Straddle")
    /\ SetBuffers(splitTriangle(
           Vertex(Index0(i)), Vertex(Index1(i)), Vertex(Index2(i)),
           Distance(Index0(i)), Distance(Index1(i)), Distance(Index2(i)),
           Buffers, Index0(i), Index1(i), Index2(i)))

\* a hull without vertices: warn and return null
ReturnNullEmpty ==
    /\ pc = "loop" /\ i >= Len(Indices)
    /\ EmptyHull(upperVertices, lowerVertices)
    /\ pc' = "returned"
    /\ sliceResult' = "null"
    /\ UNCHANGED <<swordVars, bigVars, capVars, lerpVars, plainVars, inputVars, prevCall, origAlive, isTouched, i, bufferVars, branches,
                   upperHull, lowerHull, objects, failures>>

\* both generateCap calls
GenerateCaps ==
    /\ pc = "loop" /\ i >= Len(Indices)
    /\ ~EmptyHull(upperVertices, lowerVertices)
    /\ LET u == generateCap(upperVertices, upperIndices, upperContour, TRUE,
                            slicePlaneNormal)
           l == generateCap(lowerVertices, lowerIndices, lowerContour, FALSE,
                            slicePlaneNormal)
       IN  /\ upperVertices' = u.vertices
           /\ upperIndices' = u.indices
           /\ lowerVertices' = l.vertices
           /\ lowerIndices' = l.indices
    /\ pc' = "createUpper"
    /\ UNCHANGED <<swordVars, bigVars, capVars, lerpVars, plainVars, inputVars, prevCall, origAlive, isTouched, i, upperContour,
                   lowerContour, branches, sliceResult, upperHull, lowerHull,
                   objects, failures>>

\* createMeshObject for one hull, the engine allocating the mesh
CreateHull(isUpper) ==
    LET vertices == IF isUpper THEN upperVertices ELSE lowerVertices
        indices  == IF isUpper THEN upperIndices ELSE lowerIndices
        newObj   == NewObject(IF isUpper THEN "upper" ELSE "lower", origWorldPos)
    IN  /\ objects' = Append(objects,
                [newObj EXCEPT !.mesh = Some(MeshResource(vertices, indices))])
        /\ UNCHANGED <<swordVars, bigVars, capVars, lerpVars, plainVars, inputVars, prevCall, origAlive, isTouched, i, bufferVars,
                       branches, sliceResult, failures>>

\* createMeshObject for one hull, engine.meshes.create throwing: the object
\* was added to the scene before, the exception leaves sliceMesh and update
CreateHullFails(isUpper) ==
    /\ failures < MaxFailures
    /\ failures' = failures + 1
    /\ objects' = Append(objects,
            NewObject(IF isUpper THEN "upper" ELSE "lower", origWorldPos))
    /\ sliceResult' = "thrown"
    /\ pc' = "idle"
    /\ UNCHANGED <<swordVars, bigVars, capVars, lerpVars, plainVars, inputVars, prevCall, origAlive, isTouched, i, bufferVars, branches,
                   upperHull, lowerHull>>

CreateUpperHull ==
    /\ pc = "createUpper"
    /\ CreateHull(TRUE)
    /\ upperHull' = Len(objects) + 1
    /\ pc' = "createLower"
    /\ UNCHANGED lowerHull

CreateUpperHullFails ==
    /\ pc = "createUpper"
    /\ CreateHullFails(TRUE)

CreateLowerHull ==
    /\ pc = "createLower"
    /\ CreateHull(FALSE)
    /\ lowerHull' = Len(objects) + 1
    /\ pc' = "offset"
    /\ UNCHANGED upperHull

CreateLowerHullFails ==
    /\ pc = "createLower"
    /\ CreateHullFails(FALSE)

\* the two hulls are moved apart and sliceMesh returns them
OffsetAndReturn ==
    /\ pc = "offset"
    /\ objects' = [objects EXCEPT
          ![upperHull].position[2] = RAdd(@, Rat(1, 10)),
          ![lowerHull].position[2] = RSub(@, Rat(1, 10))]
    /\ sliceResult' = "hulls"
    /\ pc' = "returned"
    /\ UNCHANGED <<swordVars, bigVars, capVars, lerpVars, plainVars, inputVars, prevCall, origAlive, isTouched, i, bufferVars, branches,
                   upperHull, lowerHull, failures>>

\* update after sliceMesh returned: physics for both hulls, then the original
\* is destroyed; addComponent(PhysXComponent) may yield nothing
FinishSlice ==
    /\ pc = "returned"
    /\ SliceSucceeded(sliceResult)
    /\ \E pu \in BOOLEAN, pl \in BOOLEAN :
          objects' = [objects EXCEPT
              ![upperHull] = makeItPhysical(@, pu),
              ![lowerHull] = makeItPhysical(@, pl)]
    /\ origAlive' = FALSE
    /\ pc' = "idle"
    /\ UNCHANGED <<swordVars, bigVars, capVars, lerpVars, plainVars, inputVars, prevCall, isTouched, i, bufferVars, branches, sliceResult,
                   upperHull, lowerHull, failures>>

\* update after sliceMesh returned null: nothing is done for this object
SkipNullResult ==
    /\ pc = "returned"
    /\ ~SliceSucceeded(sliceResult)
    /\ pc' = "idle"
    /\ UNCHANGED <<swordVars, bigVars, capVars, lerpVars, plainVars, inputVars, prevCall, origAlive, isTouched, i, bufferVars, branches,
                   sliceResult, upperHull, lowerHull, objects, failures>>

(***************************************************************************)
(* VRSword and SliceableFruit.  Positions are on a line, in units of 0.1;  *)
(* time is in units of 0.05 s.                                             *)
(***************************************************************************)
\* number of fruits in the scene
MaxFruits == 2
\* the sword is at 0 .. MaxPos
MaxPos == 3
\* a fruit is at one end of the sword's range or at the other
FruitPositions == {0, MaxPos}

\* hitRadius 0.2, in position units
HitRadius == 2
\* cacheRefreshInterval 0.1, in time units
CacheRefreshInterval == 2
\* pointValue
PointValue == 10

FruitIds == 1..MaxFruits
FrameTimes == {1, 2}

\* speed > minHitSpeed with minHitSpeed = 0.3: |v| * 0.1 / (dt * 0.05) > 0.3
FastEnough(velocity, dt) == 20 * Abs(velocity) > 3 * dt

\* the part of the state SliceableFruit.onHit works on
FruitState == [fruits |-> fruits, score |-> score,
               addScoreCalls |-> addScoreCalls, destroyCalls |-> destroyCalls]

onHit(st, f) ==
    IF st.fruits[f].isDestroyed THEN st
    ELSE [st EXCEPT !.fruits[f].isDestroyed = TRUE,
                    !.score = @ + PointValue,
                    !.addScoreCalls[f] = @ + 1,
                    !.fruits[f].alive = FALSE,
                    !.destroyCalls[f] = @ + 1]

\* the component is a SliceableFruit, so onHit is a function
hitFruit(st, f) ==
    onHit([st EXCEPT !.fruits[f].isDestroyed = TRUE], f)

\* an object that was destroyed is no longer in the scene and not active
ObjectActive(fr) == fr.alive /\ fr.active

RECURSIVE collectActiveFruits(_, _)
collectActiveFruits(fs, f) ==
    IF f > MaxFruits THEN <<>>
    ELSE (IF ObjectActive(fs[f]) /\ ~fs[f].isDestroyed THEN <<f>> ELSE <<>>)
         \o collectActiveFruits(fs, f + 1)

\* variant: every active fruit is collected, destroyed or not
updateFruitCacheAll(fs) ==
    SelectSeq([k \in 1..MaxFruits |-> k], LAMBDA x : ObjectActive(fs[x]))

updateFruitCache(fs) == collectActiveFruits(fs, 1)

RemoveAt(s, k) == SubSeq(s, 1, k - 1) \o SubSeq(s, k + 1, Len(s))

\* the loop of checkForHits from index k (1-based) down to the first entry;
\* the result holds the cache, the fruit state and the fruits handed to hitFruit
RECURSIVE checkForHits(_, _, _, _, _)
checkForHits(cache, st, hits, k, pos) ==
    IF k < 1 THEN [cache |-> cache, st |-> st, hits |-> hits]
    ELSE LET f == cache[k]
         IN  IF ~ObjectActive(st.fruits[f]) \/ st.fruits[f].isDestroyed
             THEN checkForHits(RemoveAt(cache, k), st, hits, k - 1, pos)
             ELSE IF Abs(pos - st.fruits[f].pos) <= HitRadius
             THEN checkForHits(RemoveAt(cache, k), hitFruit(st, f),
                               hits \cup {f}, k - 1, pos)
             ELSE checkForHits(cache, st, hits, k - 1, pos)

SetFruitState(st) ==
    /\ fruits' = st.fruits
    /\ score' = st.score
    /\ addScoreCalls' = st.addScoreCalls
    /\ destroyCalls' = st.destroyCalls

\* VRSword.start
SwordStart ==
    /\ cacheRefreshTimer = -1
    /\ cacheRefreshTimer' = 0
    /\ sliceableFruits' = updateFruitCache(fruits)
    /\ UNCHANGED <<fruits, currentPos, lastPos, alwaysCheckHits, score,
                   addScoreCalls, destroyCalls, hitDelivered, hitFruitCalls, slicerVars, bigVars, capVars, lerpVars, plainVars>>

\* VRSword.update with the sword at newPos after dt time units
SwordUpdate(newPos, dt) ==
    /\ cacheRefreshTimer >= 0
    /\ LET velocity == newPos - lastPos
           timer    == cacheRefreshTimer + dt
           refresh  == timer >= CacheRefreshInterval
           cache    == IF refresh THEN updateFruitCache(fruits)
                       ELSE sliceableFruits
           shouldCheck == alwaysCheckHits \/ FastEnough(velocity, dt)
           r == IF shouldCheck
                THEN checkForHits(cache, FruitState, {}, Len(cache), newPos)
                ELSE [cache |-> cache, st |-> FruitState, hits |-> {}]
       IN  /\ currentPos' = newPos
           /\ cacheRefreshTimer' = IF refresh THEN 0 ELSE timer
           /\ sliceableFruits' = r.cache
           /\ SetFruitState(r.st)
           /\ hitDelivered' = [f \in FruitIds |->
                                 hitDelivered[f] \/ f \in r.hits]
           /\ hitFruitCalls' = [f \in FruitIds |->
                                 hitFruitCalls[f] + (IF f \in r.hits THEN 1 ELSE 0)]
           /\ lastPos' = newPos
    /\ UNCHANGED <<alwaysCheckHits, slicerVars, bigVars, capVars, lerpVars, plainVars>>

\* a fruit moves
FruitMoves(f, p) ==
    /\ fruits[f].alive /\ fruits[f].pos # p
    /\ fruits' = [fruits EXCEPT ![f].pos = p]
    /\ UNCHANGED <<sliceableFruits, currentPos, lastPos, cacheRefreshTimer,
                   alwaysCheckHits, score, addScoreCalls, destroyCalls,
                   hitDelivered, hitFruitCalls, slicerVars, bigVars, capVars, lerpVars, plainVars>>

\* a fruit's object is activated or deactivated
FruitSetActive(f) ==
    /\ fruits[f].alive
    /\ fruits' = [fruits EXCEPT ![f].active = ~@]
    /\ UNCHANGED <<sliceableFruits, currentPos, lastPos, cacheRefreshTimer,
                   alwaysCheckHits, score, addScoreCalls, destroyCalls,
                   hitDelivered, hitFruitCalls, slicerVars, bigVars, capVars, lerpVars, plainVars>>

\* onHit called by another component
DirectOnHit(f) ==
    /\ fruits[f].alive
    /\ SetFruitState(onHit(FruitState, f))
    /\ UNCHANGED <<sliceableFruits, currentPos, lastPos, cacheRefreshTimer,
                   alwaysCheckHits, hitDelivered, hitFruitCalls, slicerVars, bigVars, capVars, lerpVars, plainVars>>

(***************************************************************************)
(* createMeshObject on a hull whose vertex count is near 65536: the hull   *)
(* is given by its vertex count and by some of its indices.                *)
(***************************************************************************)
\* vertex counts from 65536 - MaxOver to 65536 + MaxOver are explored
MaxOver == 2

BigVertexCounts == (65536 - MaxOver)..(65536 + MaxOver)

\* indices a hull of n vertices may hold
BigIndexValues(n) == {0, n - 2, n - 1}

\* createMeshObject of the splitting Slicer
CreateBigMesh ==
    /\ bigVariant = "ver3" /\ ~IsSome(bigMesh)
    /\ bigMesh' = Some(MeshParameters(bigVertexCount, bigIndices,
                                      IndexBits(bigVertexCount)))
    /\ UNCHANGED <<slicerVars, swordVars, capVars, lerpVars, plainVars, bigVariant, bigVertexCount, bigIndices>>

\* createMeshObject of the non-splitting Slicer
CreateBigMeshPlain ==
    /\ bigVariant = "plain" /\ ~IsSome(bigMesh)
    /\ bigMesh' = Some(MeshParameters(bigVertexCount, bigIndices,
                                      IndexBitsPlain(bigVertexCount)))
    /\ UNCHANGED <<slicerVars, swordVars, capVars, lerpVars, plainVars, bigVariant, bigVertexCount, bigIndices>>

(***************************************************************************)
(* generateCap on contours whose points lie on a line, half an epsilon     *)
(* apart.                                                                  *)
(***************************************************************************)
\* a contour has up to MaxContour points
MaxContour == 4
\* the points are at 0, epsilon/2, ... , MaxGrid * epsilon/2
MaxGrid == 4

\* epsilon / 2 with epsilon = 0.0001
HalfEpsilon == Rat(1, 20000)

GridPoints ==
    {[position |-> <<RMul(R(k), HalfEpsilon), R(0), R(0)>>, edgeVerts |-> <<0, 1>>] :
        k \in 0..MaxGrid}

Contours == UNION {[1..n -> GridPoints] : n \in 0..MaxContour}

\* a hull of one triangle
OneTriangle ==
    addTriangle(<<>>, <<>>,
                [position |-> Vec3(0, 0, 0), normal |-> None, texCoord |-> None],
                [position |-> Vec3(1, 0, 0), normal |-> None, texCoord |-> None],
                [position |-> Vec3(0, 0, 1), normal |-> None, texCoord |-> None])

\* generateCap as a whole
CapGenerate ==
    /\ ~IsSome(capResult)
    /\ capResult' = Some(generateCap(capVertices, capIndices, capContour,
                                     capIsUpper, slicePlaneNormal))
    /\ capUnique' = IF TooFew(Len(capContour)) THEN None
                    ELSE Some(Dedup(capContour, <<>>))
    /\ UNCHANGED <<slicerVars, swordVars, bigVars, lerpVars, plainVars, capVertices, capIndices,
                   capContour, capIsUpper>>

(***************************************************************************)
(* sliceMesh of the non-splitting Slicer: triangles on one side of the     *)
(* plane are copied with shared vertices, the others are left out.         *)
(***************************************************************************)
\* the four arrays sliceMesh fills for a hull
EmptyHullArrays ==
    [vertices |-> <<>>, normals |-> <<>>, texCoords |-> <<>>, indices |-> <<>>]

\* Map.set
MapSet(m, key, value) ==
    [k \in DOMAIN m \cup {key} |-> IF k = key THEN value ELSE m[k]]

\* addVertex: the hull's arrays and the map after the call
addVertex(index, positions, normals, texCoords, hull, map, side, currentCount) ==
    LET m1 == IF index \in DOMAIN map THEN map
              ELSE MapSet(map, index, [upper |-> -1, lower |-> -1])
        mapping == m1[index]
    IN  IF mapping[side] = -1
        THEN [map  |-> MapSet(m1, index, [mapping EXCEPT ![side] = currentCount]),
              hull |-> [hull EXCEPT
                  !.vertices  = Append(@, positions[index + 1]),
                  !.normals   = IF IsSome(normals)
                                THEN Append(@, Val(normals)[index + 1]) ELSE @,
                  !.texCoords = IF IsSome(texCoords)
                                THEN Append(@, Val(texCoords)[index + 1]) ELSE @]]
        ELSE [map |-> m1, hull |-> hull]

Max(a, b) == IF a >= b THEN a ELSE b

\* the body of one branch of the triangle loop: three addVertex calls with the
\* count as it is before the triangle, then the indices and the new count
CopyTriangle(i0, i1, i2, hull, map, side, count) ==
    LET a0 == addVertex(i0, Positions, mesh.normals, mesh.texCoords, hull, map,
                        side, count)
        a1 == addVertex(i1, Positions, mesh.normals, mesh.texCoords, a0.hull,
                        a0.map, side, count)
        a2 == addVertex(i2, Positions, mesh.normals, mesh.texCoords, a1.hull,
                        a1.map, side, count)
        idx0 == a2.map[i0][side]
        idx1 == a2.map[i1][side]
        idx2 == a2.map[i2][side]
        pushed(before, after, index) ==
            IF Len(after.vertices) > Len(before.vertices) THEN <<index>> ELSE <<>>
    IN  [map   |-> a2.map,
         hull  |-> [a2.hull EXCEPT !.indices = @ \o <<idx0, idx1, idx2>>],
         count |-> Max(Max(count, idx0 + 1), Max(idx1 + 1, idx2 + 1)),
         pushed |-> pushed(hull, a0.hull, i0) \o pushed(a0.hull, a1.hull, i1)
                      \o pushed(a1.hull, a2.hull, i2)]

AllUpper(k) ==
    /\ Sign(Distance(Index0(k))) >= 0
    /\ Sign(Distance(Index1(k))) >= 0
    /\ Sign(Distance(Index2(k))) >= 0

AllLower(k) ==
    /\ Sign(Distance(Index0(k))) <= 0
    /\ Sign(Distance(Index1(k))) <= 0
    /\ Sign(Distance(Index2(k))) <= 0

\* sliceMesh starts: positions and index data are there
PlainBegin ==
    /\ plainPc = "idle"
    /\ ~MissingData(mesh.positions, mesh.indexData)
    /\ plainPc' = "loop"
    /\ UNCHANGED <<slicerVars, swordVars, bigVars, capVars, lerpVars, plainI,
                   vertexMap, upperVertexCount, lowerVertexCount, plainUpper,
                   plainLower, plainSources, plainMeshes>>

\* sliceMesh on a mesh without positions or index data returns null
PlainReturnNull ==
    /\ plainPc = "idle"
    /\ MissingData(mesh.positions, mesh.indexData)
    /\ plainPc' = "null"
    /\ UNCHANGED <<slicerVars, swordVars, bigVars, capVars, lerpVars, plainI,
                   vertexMap, upperVertexCount, lowerVertexCount, plainUpper,
                   plainLower, plainSources, plainMeshes>>

PlainStep ==
    /\ plainPc = "loop" /\ plainI < Len(Indices)
    /\ plainI' = plainI + 3
    /\ UNCHANGED <<slicerVars, swordVars, bigVars, capVars, lerpVars, plainPc,
                   plainMeshes>>

\* a triangle with no vertex below the plane goes to the upper hull
PlainStepUpper ==
    /\ PlainStep
    /\ AllUpper(plainI)
    /\ LET r == CopyTriangle(Index0(plainI), Index1(plainI), Index2(plainI),
                             plainUpper, vertexMap, "upper", upperVertexCount)
       IN  /\ vertexMap' = r.map
           /\ plainUpper' = r.hull
           /\ upperVertexCount' = r.count
           /\ plainSources' = [plainSources EXCEPT !.upper = @ \o r.pushed]
    /\ UNCHANGED <<plainLower, lowerVertexCount>>

\* otherwise a triangle with no vertex above the plane goes to the lower hull
PlainStepLower ==
    /\ PlainStep
    /\ ~AllUpper(plainI) /\ AllLower(plainI)
    /\ LET r == CopyTriangle(Index0(plainI), Index1(plainI), Index2(plainI),
                             plainLower, vertexMap, "lower", lowerVertexCount)
       IN  /\ vertexMap' = r.map
           /\ plainLower' = r.hull
           /\ lowerVertexCount' = r.count
           /\ plainSources' = [plainSources EXCEPT !.lower = @ \o r.pushed]
    /\ UNCHANGED <<plainUpper, upperVertexCount>>

\* a triangle that crosses the plane is left out
PlainStepCrossing ==
    /\ PlainStep
    /\ ~AllUpper(plainI) /\ ~AllLower(plainI)
    /\ UNCHANGED <<vertexMap, plainUpper, plainLower, upperVertexCount,
                   lowerVertexCount, plainSources>>

\* createMeshObject for both hulls: the mesh parameters
PlainCreateMeshes ==
    /\ plainPc = "loop" /\ plainI >= Len(Indices)
    /\ plainPc' = "created"
    /\ plainMeshes' = Some(
          [upper |-> MeshParameters(Len(plainUpper.vertices), plainUpper.indices,
                                    IndexBitsPlain(Len(plainUpper.vertices))),
           lower |-> MeshParameters(Len(plainLower.vertices), plainLower.indices,
                                    IndexBitsPlain(Len(plainLower.vertices)))])
    /\ UNCHANGED <<slicerVars, swordVars, bigVars, capVars, lerpVars, plainI,
                   vertexMap, upperVertexCount, lowerVertexCount, plainUpper,
                   plainLower, plainSources>>

\* the vertices handed to interpolateVertex: each attribute present or not
LerpPositions == {Vec3(0, 0, 0), Vec3(2, 0, -2)}
LerpNormals == {None, Some(RawNormal(Vec3(0, 1, 0))), Some(RawNormal(Vec3(0, -1, 0)))}
LerpTexCoords == {None, Some(<<R(0), R(1)>>)}
LerpVertices ==
    [position : LerpPositions, normal : LerpNormals, texCoord : LerpTexCoords]
LerpParams == {R(0), Rat(1, 2), R(1)}

\* interpolateVertex as a whole
Interpolate ==
    /\ ~IsSome(lerpResult)
    /\ lerpResult' = Some(interpolateVertex(lerpV1, lerpV2, lerpT))
    /\ UNCHANGED <<slicerVars, swordVars, bigVars, capVars, plainVars, lerpV1, lerpV2,
                   lerpT>>

(***************************************************************************)
(* Specifications.                                                         *)
(***************************************************************************)
PlainIdle ==
    /\ plainPc = "idle"
    /\ plainI = 0
    /\ vertexMap = <<>>
    /\ upperVertexCount = 0 /\ lowerVertexCount = 0
    /\ plainUpper = EmptyHullArrays /\ plainLower = EmptyHullArrays
    /\ plainSources = [upper |-> <<>>, lower |-> <<>>]
    /\ plainMeshes = None

LerpIdle ==
    /\ lerpV1 = [position |-> ZeroVec, normal |-> None, texCoord |-> None]
    /\ lerpV2 = [position |-> ZeroVec, normal |-> None, texCoord |-> None]
    /\ lerpT = R(0)
    /\ lerpResult = None

CapIdle ==
    /\ capVertices = <<>> /\ capIndices = <<>>
    /\ capContour = <<>> /\ capIsUpper = TRUE
    /\ capUnique = None /\ capResult = None

BigIdle ==
    /\ bigVariant = "ver3"
    /\ bigVertexCount = 0
    /\ bigIndices = <<>>
    /\ bigMesh = None

InputKinds ==
    {"full", "noNormals", "noTexCoords", "noPositions", "noIndices", "noMeshComp"}

SwordIdle ==
    /\ fruits = [f \in FruitIds |->
                   [active |-> TRUE, isDestroyed |-> FALSE, alive |-> TRUE, pos |-> 0]]
    /\ sliceableFruits = <<>>
    /\ currentPos = 0 /\ lastPos = 0
    /\ cacheRefreshTimer = -1
    /\ alwaysCheckHits = FALSE
    /\ score = 0
    /\ addScoreCalls = [f \in FruitIds |-> 0]
    /\ destroyCalls = [f \in FruitIds |-> 0]
    /\ hitDelivered = [f \in FruitIds |-> FALSE]
    /\ hitFruitCalls = [f \in FruitIds |-> 0]

SlicerIdle ==
    /\ origAlive = TRUE
    /\ isTouched = FALSE
    /\ pc = "idle"
    /\ i = 0
    /\ upperVertices = <<>> /\ lowerVertices = <<>>
    /\ upperIndices = <<>> /\ lowerIndices = <<>>
    /\ upperContour = <<>> /\ lowerContour = <<>>
    /\ branches = <<>>
    /\ sliceResult = "none"
    /\ upperHull = 0 /\ lowerHull = 0
    /\ objects = <<>>
    /\ failures = 0
    /\ prevCall = None

\* a Slicer next to an object with one of the meshes
Init ==
    /\ \E m \in Meshes, kind \in InputKinds :
          /\ mesh = WithAttributes(m, kind # "noPositions", kind # "noNormals",
                                   kind # "noTexCoords", kind # "noIndices")
          /\ origHasMesh = (kind # "noMeshComp")
    /\ origWorldPos \in WorldPositions
    /\ slicePlaneNormal \in PlaneNormals
    /\ slicePlanePoint \in PlanePoints
    /\ SlicerIdle
    /\ PlainIdle
    /\ SwordIdle
    /\ BigIdle
    /\ LerpIdle
    /\ CapIdle

Next ==
    \/ Touch
    \/ UpdateNoObjects
    \/ UpdateNoMesh
    \/ SliceUnslicable
    \/ SliceBegin
    \/ StepAllAbove
    \/ StepAllBelow
    \/ StepOnPlane
    \/ StepStraddle
    \/ ReturnNullEmpty
    \/ GenerateCaps
    \/ CreateUpperHull
    \/ CreateUpperHullFails
    \/ CreateLowerHull
    \/ CreateLowerHullFails
    \/ OffsetAndReturn
    \/ FinishSlice
    \/ SkipNullResult

Spec == Init /\ [][Next]_vars

\* a sword among MaxFruits fruits, after init()
SwordInit ==
    /\ fruits \in [FruitIds -> [active : {TRUE}, isDestroyed : {FALSE},
                                alive : {TRUE}, pos : FruitPositions]]
    /\ sliceableFruits = <<>>
    /\ currentPos = 0
    /\ lastPos \in 0..MaxPos
    /\ cacheRefreshTimer = -1
    /\ alwaysCheckHits \in BOOLEAN
    /\ score = 0
    /\ addScoreCalls = [f \in FruitIds |-> 0]
    /\ destroyCalls = [f \in FruitIds |-> 0]
    /\ hitDelivered = [f \in FruitIds |-> FALSE]
    /\ hitFruitCalls = [f \in FruitIds |-> 0]
    /\ mesh = WithAttributes(MeshOf(TetraPositions, TetraTriangles, 0),
                             TRUE, TRUE, TRUE, TRUE)
    /\ origHasMesh = TRUE
    /\ origWorldPos = ZeroVec
    /\ slicePlaneNormal = Vec3(0, 1, 0)
    /\ slicePlanePoint = Vec3(0, 0, 0)
    /\ SlicerIdle
    /\ PlainIdle
    /\ BigIdle
    /\ LerpIdle
    /\ CapIdle

SwordNext ==
    \/ SwordStart
    \/ \E newPos \in 0..MaxPos, dt \in FrameTimes : SwordUpdate(newPos, dt)
    \/ \E f \in FruitIds, p \in FruitPositions : FruitMoves(f, p)
    \/ \E f \in FruitIds : FruitSetActive(f)
    \/ \E f \in FruitIds : DirectOnHit(f)

SwordSpec == SwordInit /\ [][SwordNext]_vars

\* a hull of many vertices handed to createMeshObject of either Slicer
IndexWidthInit ==
    /\ bigVariant \in {"ver3", "plain"}
    /\ bigVertexCount \in BigVertexCounts
    /\ bigIndices \in [1..3 -> BigIndexValues(bigVertexCount)]
    /\ bigMesh = None
    /\ mesh = WithAttributes(MeshOf(TetraPositions, TetraTriangles, 0),
                             TRUE, TRUE, TRUE, TRUE)
    /\ origHasMesh = TRUE
    /\ origWorldPos = ZeroVec
    /\ slicePlaneNormal = Vec3(0, 1, 0)
    /\ slicePlanePoint = Vec3(0, 0, 0)
    /\ SlicerIdle
    /\ PlainIdle
    /\ SwordIdle
    /\ CapIdle
    /\ LerpIdle

IndexWidthNext == CreateBigMesh \/ CreateBigMeshPlain

IndexWidthSpec == IndexWidthInit /\ [][IndexWidthNext]_vars

\* a hull and a contour handed to generateCap
CapInit ==
    /\ \E h \in {[vertices |-> <<>>, indices |-> <<>>], OneTriangle} :
          capVertices = h.vertices /\ capIndices = h.indices
    /\ capContour \in Contours
    /\ capIsUpper \in BOOLEAN
    /\ capUnique = None /\ capResult = None
    /\ mesh = WithAttributes(MeshOf(TetraPositions, TetraTriangles, 0),
                             TRUE, TRUE, TRUE, TRUE)
    /\ origHasMesh = TRUE
    /\ origWorldPos = ZeroVec
    /\ slicePlaneNormal = Vec3(0, 1, 0)
    /\ slicePlanePoint = Vec3(0, 0, 0)
    /\ SlicerIdle
    /\ PlainIdle
    /\ SwordIdle
    /\ BigIdle
    /\ LerpIdle

CapNext == CapGenerate

CapSpec == CapInit /\ [][CapNext]_vars

\* the non-splitting Slicer next to an object with one of the meshes
PlainInit ==
    /\ \E m \in Meshes, kind \in {"full", "noNormals", "noTexCoords", "noIndices"} :
          mesh = WithAttributes(m, TRUE, kind # "noNormals", kind # "noTexCoords",
                                kind # "noIndices")
    /\ origHasMesh = TRUE
    /\ origWorldPos \in WorldPositions
    /\ slicePlaneNormal \in PlaneNormals
    /\ slicePlanePoint = Vec3(0, 0, 0)
    /\ SlicerIdle
    /\ PlainIdle
    /\ SwordIdle
    /\ BigIdle
    /\ CapIdle
    /\ LerpIdle

PlainNext ==
    \/ PlainBegin
    \/ PlainReturnNull
    \/ PlainStepUpper
    \/ PlainStepLower
    \/ PlainStepCrossing
    \/ PlainCreateMeshes

PlainSpec == PlainInit /\ [][PlainNext]_vars

\* two vertices and a parameter handed to interpolateVertex
LerpInit ==
    /\ lerpV1 \in LerpVertices
    /\ lerpV2 \in LerpVertices
    /\ lerpT \in LerpParams
    /\ lerpResult = None
    /\ mesh = WithAttributes(MeshOf(TetraPositions, TetraTriangles, 0),
                             TRUE, TRUE, TRUE, TRUE)
    /\ origHasMesh = TRUE
    /\ origWorldPos = ZeroVec
    /\ slicePlaneNormal = Vec3(0, 1, 0)
    /\ slicePlanePoint = Vec3(0, 0, 0)
    /\ SlicerIdle
    /\ PlainIdle
    /\ SwordIdle
    /\ BigIdle
    /\ CapIdle

LerpNext == Interpolate

LerpSpec == LerpInit /\ [][LerpNext]_vars

(***************************************************************************)
(* Properties.                                                             *)
(***************************************************************************)
\* signed distance of a hull vertex from the cut plane
DistanceOf(v) == getSideOfPlane(v.position, origWorldPos, slicePlaneNormal)

\* the entries k+1 .. of a buffer after a step
Added(old, new) == SubSeq(new, Len(old) + 1, Len(new))

\* this step is an iteration of the triangle loop taking the given branch
Took(topology) ==
    /\ pc = "loop" /\ i < Len(Indices)
    /\ i' = i + 3
    /\ Topology(i) = topology

LastBranch == IF branches = <<>> THEN "none" ELSE branches[Len(branches)]

\* what a splitTriangle step appends lies on the side of the hull it goes to
SplitRoutedBySign ==
    Took("Straddle") =>
        /\ \A k \in 1..Len(Added(upperVertices, upperVertices')) :
              RLe(R(0), DistanceOf(Added(upperVertices, upperVertices')[k]))
        /\ \A k \in 1..Len(Added(lowerVertices, lowerVertices')) :
              RLe(DistanceOf(Added(lowerVertices, lowerVertices')[k]), R(0))

\* C1: every sub-triangle splitTriangle appends to the upper hull has its
\* three vertices at signed distance >= 0, every one it appends to the lower
\* hull has them at signed distance <= 0
C1_SplitRouting == [][SplitRoutedBySign]_vars

\* the plane does not intersect the mesh: every triangle got the same
\* classification, and none was split
SameClassification ==
    \E c \in {"AllAbove", "AllBelow", "OnPlane"} :
        \A k \in 1..Len(branches) : branches[k] = c

\* the vertex data of all input triangles, in index order
RECURSIVE InputVertices(_)
InputVertices(k) ==
    IF k >= Len(Indices) THEN <<>>
    ELSE <<Vertex(Index0(k)), Vertex(Index1(k)), Vertex(Index2(k))>>
         \o InputVertices(k + 3)

HoldsWholeInput(vertices, indices) ==
    /\ vertices = InputVertices(0)
    /\ indices = [k \in 1..Len(Indices) |-> k - 1]

OneHullAllOtherEmpty ==
    \/ /\ HoldsWholeInput(upperVertices, upperIndices)
       /\ lowerVertices = <<>> /\ lowerIndices = <<>>
    \/ /\ HoldsWholeInput(lowerVertices, lowerIndices)
       /\ upperVertices = <<>> /\ upperIndices = <<>>

SliceMeshReturned == pc = "returned" /\ IsSome(mesh.positions) /\ IsSome(mesh.indexData)

C3_HitScoresAndDestroys ==
    \A f \in FruitIds :
        hitDelivered[f] => (addScoreCalls[f] = 1 /\ ~fruits[f].alive)

\* both hull objects of this call exist and carry their mesh
BothHullsCreated ==
    /\ upperHull \in 1..Len(objects) /\ lowerHull \in 1..Len(objects)
    /\ upperHull # lowerHull
    /\ objects[upperHull].kind = "upper" /\ IsSome(objects[upperHull].mesh)
    /\ objects[lowerHull].kind = "lower" /\ IsSome(objects[lowerHull].mesh)

\* a step destroys the original only with both hulls at hand, and a call that
\* ended with null or an exception leaves it alive
DestroyedOnlyAfterHulls ==
    /\ (origAlive /\ ~origAlive') => (sliceResult = "hulls" /\ BothHullsCreated)
    /\ (sliceResult' \in {"null", "thrown"}) => origAlive'

\* C4: the original object is destroyed only in a call of update in which
\* sliceMesh returned both hull objects; it stays alive whenever sliceMesh
\* returned null or threw
C4_DestroyAfterBothHulls == [][DestroyedOnlyAfterHulls]_vars

C4_Witness ==
    /\ ~origAlive /\ sliceResult = "hulls" /\ BothHullsCreated
    /\ failures = 1

\* the triangles (vertex triples) of a vertex sequence built by addTriangle
TrianglesOf(vs) ==
    [k \in 1..(Len(vs) \div 3) |-> <<vs[3 * k - 2], vs[3 * k - 1], vs[3 * k]>>]

TriNormal(a, b, c) == Cross(VSub(b, a), VSub(c, a))

\* the triangle (a, b, c) turns the same way as the triangle with normal n
SameWinding(t, n) ==
    RLt(R(0), Dot(TriNormal(t[1].position, t[2].position, t[3].position), n))

CurrentNormal ==
    TriNormal(Vertex(Index0(i)).position, Vertex(Index1(i)).position,
              Vertex(Index2(i)).position)

\* one vertex strictly above and one strictly below the plane
Straddles(k) ==
    /\ \E x \in {Index0(k), Index1(k), Index2(k)} : Sign(Distance(x)) = 1
    /\ \E x \in {Index0(k), Index1(k), Index2(k)} : Sign(Distance(x)) = -1

\* the sub-triangles a splitTriangle step appends turn as the original does
WindingKept ==
    (Took("Straddle") /\ Straddles(i)) =>
        /\ \A k \in 1..Len(TrianglesOf(Added(upperVertices, upperVertices'))) :
              SameWinding(TrianglesOf(Added(upperVertices, upperVertices'))[k],
                          CurrentNormal)
        /\ \A k \in 1..Len(TrianglesOf(Added(lowerVertices, lowerVertices'))) :
              SameWinding(TrianglesOf(Added(lowerVertices, lowerVertices'))[k],
                          CurrentNormal)

\* C5: each sub-triangle splitTriangle emits for a straddling triangle has the
\* winding of the original triangle
C5_SplitKeepsWinding == [][WindingKept]_vars

\* what a splitTriangle step adds to the hulls and to the contours
SplitCounts ==
    Took("Straddle") =>
        LET du == Len(upperVertices') - Len(upperVertices)
            dl == Len(lowerVertices') - Len(lowerVertices)
        IN  /\ <<du, dl>> \in {<<6, 3>>, <<3, 6>>}
            /\ Len(upperIndices') - Len(upperIndices) = du
            /\ Len(lowerIndices') - Len(lowerIndices) = dl
            /\ Len(upperContour') = Len(upperContour) + 2
            /\ Len(lowerContour') = Len(lowerContour) + 2

\* C6: a call of splitTriangle appends three sub-triangles in all, two to one
\* hull and one to the other, and two contour points to each contour list
C6_SplitAppendsThreeAndTwo == [][SplitCounts]_vars

C6_Witness ==
    /\ pc = "loop" /\ LastBranch = "Straddle"
    /\ Len(upperContour) = 2 /\ Len(lowerContour) = 2
    /\ Len(upperVertices) = 6 /\ Len(lowerVertices) = 3

CountOf(topologies) ==
    Cardinality({k \in 1..Len(branches) : branches[k] \in topologies})

\* C7: every triangle processed took exactly one branch and is in the output
\* exactly once: a whole triangle in one hull, or the three sub-triangles of
\* its split
C7_EachTriangleOnce ==
    pc = "loop" =>
        /\ 3 * Len(branches) = i
        /\ Len(upperVertices) + Len(lowerVertices)
             = 3 * CountOf({"AllAbove", "AllBelow", "OnPlane"})
               + 9 * CountOf({"Straddle"})
        /\ Len(upperIndices) = Len(upperVertices)
        /\ Len(lowerIndices) = Len(lowerVertices)
        /\ Len(lowerVertices) >= 3 * CountOf({"AllBelow"})
        /\ Len(upperVertices) >= 3 * CountOf({"AllAbove", "OnPlane"})

C7_Witness ==
    /\ pc = "loop" /\ i = Len(Indices) /\ Len(branches) = 12
    /\ CountOf({"AllAbove"}) > 0 /\ CountOf({"AllBelow"}) > 0
    /\ CountOf({"Straddle"}) > 0

HullsCapped == pc \in {"createUpper", "createLower", "offset", "returned"}
                 /\ sliceResult \in {"none", "hulls"}

AttributesAgree(vs) ==
    \A a \in 1..Len(vs), b \in 1..Len(vs) :
        /\ IsSome(vs[a].normal) = IsSome(vs[b].normal)
        /\ IsSome(vs[a].texCoord) = IsSome(vs[b].texCoord)

\* C8: in each hull, after capping, either every vertex has a normal or none
\* has one, and the same for texCoord
C8_AttributesConsistent ==
    HullsCapped => (AttributesAgree(upperVertices) /\ AttributesAgree(lowerVertices))

\* the unit cube cut by the plane normal = [0,1,0] through [0,0,0]
CubeCut ==
    /\ mesh.positions = Some(CubePositions)
    /\ IsSome(mesh.indexData)
    /\ slicePlaneNormal = Vec3(0, 1, 0)
    /\ origWorldPos = ZeroVec

LoopDone == pc = "loop" /\ i = Len(Indices)

\* number of triangles of the cap generateCap builds from a contour
CapTriangles(contour, isUpper) ==
    Len(generateCap(<<>>, <<>>, contour, isUpper, slicePlaneNormal).indices) \div 3

\* C9 as stated: 8 vertices per hull before the cap, 13 after it, the cap
\* being 2 triangles
C9_CubeCounts8And13 ==
    /\ (CubeCut /\ LoopDone) =>
          (Len(upperVertices) = 8 /\ Len(lowerVertices) = 8)
    /\ (CubeCut /\ HullsCapped) =>
          /\ Len(upperVertices) = 13 /\ Len(lowerVertices) = 13
          /\ CapTriangles(upperContour, TRUE) = 2
          /\ CapTriangles(lowerContour, FALSE) = 2

\* C9 amended: 42 vertices per hull before the cap (every triangle brings its
\* own three vertices) and 51 after it (8 unique contour points plus 1
\* centroid), the cap being a fan of 8 triangles
C9_CubeCounts42And51 ==
    /\ (CubeCut /\ LoopDone) =>
          /\ Len(upperVertices) = 42 /\ Len(lowerVertices) = 42
          /\ Len(upperIndices) = 42 /\ Len(lowerIndices) = 42
          /\ Len(upperContour) = 16 /\ Len(lowerContour) = 16
    /\ (CubeCut /\ HullsCapped) =>
          /\ Len(upperVertices) = 51 /\ Len(lowerVertices) = 51
          /\ Len(upperIndices) = 42 + 3 * 8
          /\ Len(lowerIndices) = 42 + 3 * 8
          /\ CapTriangles(upperContour, TRUE) = 8
          /\ CapTriangles(lowerContour, FALSE) = 8

C9_Witness == CubeCut /\ HullsCapped /\ Len(upperVertices) = 51

\* directed edges, by endpoint positions, of the triangles of a hull
EdgeCount(vertices, indices, p, q) ==
    Cardinality({<<t, e>> \in (0..(Len(indices) \div 3 - 1)) \X (0..2) :
        /\ vertices[indices[3 * t + e + 1] + 1].position = p
        /\ vertices[indices[3 * t + ((e + 1) % 3) + 1] + 1].position = q})

PositionsOf(vertices) == {vertices[k].position : k \in 1..Len(vertices)}

\* every edge is used by exactly two triangles, once in each direction
Closed(vertices, indices) ==
    \A p \in PositionsOf(vertices), q \in PositionsOf(vertices) :
        LET n == EdgeCount(vertices, indices, p, q)
        IN  n > 0 => (n = 1 /\ EdgeCount(vertices, indices, q, p) = 1)

SolidMesh ==
    /\ mesh.positions \in {Some(CubePositions), Some(TetraPositions)}
    /\ IsSome(mesh.indexData)

ProperCut ==
    /\ CountOf({"Straddle"}) > 0
    /\ \A k \in 0..(TriangleCount - 1) :
          Topology(3 * k) = "Straddle" => Straddles(3 * k)

\* C10: a convex closed solid cut by a plane that properly intersects it yields
\* two capped hulls in each of which every edge is shared by exactly two
\* triangles with opposite directions
C10_HullsClosed ==
    (SolidMesh /\ HullsCapped /\ ProperCut) =>
        (Closed(upperVertices, upperIndices) /\ Closed(lowerVertices, lowerIndices))

\* the vertex the mesh attributes hold at an index
SourceVertex(index) ==
    [position |-> Val(mesh.positions)[index + 1],
     normal   |-> IF IsSome(mesh.normals)
                  THEN Some([unit |-> FALSE, v |-> Val(mesh.normals)[index + 1]])
                  ELSE None,
     texCoord |-> IF IsSome(mesh.texCoords)
                  THEN Some(Val(mesh.texCoords)[index + 1]) ELSE None]

SourceTriangle(k) ==
    <<SourceVertex(Index0(k)), SourceVertex(Index1(k)), SourceVertex(Index2(k))>>

\* the three signs of the triangle at k are all s
AllOnSide(k, s) ==
    \A x \in {Index0(k), Index1(k), Index2(k)} : Sign(Distance(x)) = s

LoopIteration == pc = "loop" /\ i < Len(Indices) /\ i' = i + 3

\* a triangle strictly on one side is appended to that side's hull as it is
\* in the mesh, and nothing else changes
CopiedUnchanged ==
    /\ (LoopIteration /\ AllOnSide(i, 1)) =>
          /\ Added(upperVertices, upperVertices') = SourceTriangle(i)
          /\ Added(upperIndices, upperIndices')
                = <<Len(upperVertices), Len(upperVertices) + 1,
                    Len(upperVertices) + 2>>
          /\ UNCHANGED <<lowerVertices, lowerIndices, upperContour, lowerContour>>
    /\ (LoopIteration /\ AllOnSide(i, -1)) =>
          /\ Added(lowerVertices, lowerVertices') = SourceTriangle(i)
          /\ Added(lowerIndices, lowerIndices')
                = <<Len(lowerVertices), Len(lowerVertices) + 1,
                    Len(lowerVertices) + 2>>
          /\ UNCHANGED <<upperVertices, upperIndices, upperContour, lowerContour>>

\* C11: a triangle whose three vertices are all strictly above or all strictly
\* below the plane is written to that side's hull only, its vertices in the
\* original order with the position, normal and texCoord of the mesh
C11_IdentityCopy == [][CopiedUnchanged]_vars

C11_Witness ==
    /\ pc = "loop"
    /\ IsSome(mesh.normals) /\ IsSome(mesh.texCoords)
    /\ \E k \in 1..Len(branches) : branches[k] = "AllAbove"
    /\ \E k \in 1..Len(branches) : branches[k] = "AllBelow"
    /\ Len(upperVertices) >= 3 /\ Len(lowerVertices) >= 3

\* the object has a mesh that lacks the position attribute or the index data
MeshLacksData ==
    origHasMesh /\ (~IsSome(mesh.positions) \/ ~IsSome(mesh.indexData))

NoPhysics == \A k \in 1..Len(objects) : ~IsSome(objects[k].physx)

\* C12: for a mesh without position attribute or without index data sliceMesh
\* returns null without throwing, no scene object and no mesh resource is
\* created, and update attaches no physics and keeps the original object
C12_NullOnMissingData ==
    MeshLacksData =>
        /\ pc \in {"idle", "returned"}
        /\ sliceResult \in {"none", "null"}
        /\ (pc = "returned" => sliceResult = "null")
        /\ objects = <<>> /\ upperHull = 0 /\ lowerHull = 0
        /\ NoPhysics
        /\ origAlive

C12_Witness ==
    /\ MeshLacksData /\ IsSome(mesh.indexData)
    /\ pc = "idle" /\ sliceResult = "null" /\ origAlive

\* a step in which engine.meshes.create throws ends the call of update with
\* the original object alive and where it was, and no object has a rigid body
AbortLeavesOriginal ==
    (sliceResult' = "thrown") =>
        /\ pc' = "idle"
        /\ origAlive /\ origAlive'
        /\ origWorldPos' = origWorldPos /\ mesh' = mesh
        /\ origHasMesh' = origHasMesh
        /\ NoPhysics'

\* C13: when the engine fails to allocate the mesh of the upper or of the
\* lower hull the slice is aborted and the original object is left untouched:
\* not destroyed, not moved, and no rigid body is attached to anything
C13_AllocationFailureAborts == [][AbortLeavesOriginal]_vars

C13_Witness ==
    /\ sliceResult = "thrown" /\ pc = "idle" /\ origAlive
    /\ Len(objects) = 2
    /\ IsSome(objects[1].mesh) /\ ~IsSome(objects[2].mesh)

\* the index array handed to the engine holds the hull's indices
NoWrapAround ==
    \A k \in 1..Len(bigIndices) : Val(bigMesh).indexData[k] = bigIndices[k]

\* C14: createMeshObject encodes the indices with 32 bits exactly when the
\* hull has more than 65535 vertices and with 16 bits otherwise, and every
\* index of the hull is stored without wrap-around
C14_IndexWidth ==
    IsSome(bigMesh) =>
        /\ Val(bigMesh).indexBits = (IF bigVertexCount > 65535 THEN 32 ELSE 16)
        /\ NoWrapAround

\* scale[0] * scale[1] * scale[2] of a hull object, which has the transform
\* of the original
WorldVolume == RMul(RMul(OrigScaling[1], OrigScaling[2]), OrigScaling[3])

\* C15: the rigid body of every hull object that carries a mesh has the mass
\* volume x density, the volume being the product of the three components of
\* the object's world scaling, and is dynamic (kinematic = false)
C15_MassIsVolumeTimesDensity ==
    \A k \in 1..Len(objects) :
        (IsSome(objects[k].mesh) /\ IsSome(objects[k].physx)) =>
            /\ Val(objects[k].physx).mass = RMul(WorldVolume, Density)
            /\ Val(objects[k].physx).kinematic = FALSE

\* twice the area of a triangle whose plane is perpendicular to an axis: the
\* cross product has one component, whose absolute value is its length
AxisParallel(c) ==
    Cardinality({k \in 1..3 : c[k] # R(0)}) <= 1
DoubleArea(t) ==
    LET c == TriNormal(t[1].position, t[2].position, t[3].position)
    IN  RAdd(RAdd(RAbs(c[1]), RAbs(c[2])), RAbs(c[3]))

RECURSIVE SumDoubleArea(_)
SumDoubleArea(ts) ==
    IF ts = <<>> THEN R(0)
    ELSE RAdd(DoubleArea(Head(ts)), SumDoubleArea(Tail(ts)))

AllAxisParallel(ts) ==
    \A k \in 1..Len(ts) :
        AxisParallel(TriNormal(ts[k][1].position, ts[k][2].position,
                               ts[k][3].position))

\* the vertices of a hull that do not belong to its cap
NonCapVertices(vertices, contour, isUpper) ==
    IF HullsCapped /\ CapTriangles(contour, isUpper) > 0
    THEN SubSeq(vertices, 1, Len(vertices) - CapTriangles(contour, isUpper) - 1)
    ELSE vertices

\* the cube, cut by a plane through its centroid
CubeCutThroughCentroid ==
    /\ mesh.positions = Some(CubePositions)
    /\ IsSome(mesh.indexData)
    /\ origWorldPos = ZeroVec

\* the normal of the input triangle at k
NormalOf(k) ==
    TriNormal(Vertex(Index0(k)).position, Vertex(Index1(k)).position,
              Vertex(Index2(k)).position)

\* the area of a triangle in the plane with normal n, as a fraction of the
\* area of the triangle whose edges span n
RelativeArea(t, n) ==
    LET c == TriNormal(t[1].position, t[2].position, t[3].position)
    IN  RDiv(RAbs(Dot(c, n)), Dot(n, n))

InPlaneOf(t, n) ==
    Cross(TriNormal(t[1].position, t[2].position, t[3].position), n) = ZeroVec

\* s ends with t
EndsWith(s, t) ==
    Len(s) >= Len(t) /\ SubSeq(s, Len(s) - Len(t) + 1, Len(s)) = t

\* what splitTriangle appends for the input triangle at k
SplitOf(k) ==
    splitTriangle(Vertex(Index0(k)), Vertex(Index1(k)), Vertex(Index2(k)),
                  Distance(Index0(k)), Distance(Index1(k)), Distance(Index2(k)),
                  EmptyBuffers, Index0(k), Index1(k), Index2(k))

\* the sub-triangles splitTriangle has just appended lie in the plane of the
\* original triangle and their areas add up to its area
SplitKeepsArea ==
    (pc = "loop" /\ LastBranch = "Straddle") =>
        LET r  == SplitOf(i - 3)
            ts == TrianglesOf(r.upperVerts) \o TrianglesOf(r.lowerVerts)
            n  == NormalOf(i - 3)
        IN  /\ EndsWith(upperVertices, r.upperVerts)
            /\ EndsWith(lowerVertices, r.lowerVerts)
            /\ Len(ts) = 3
            /\ \A k \in 1..Len(ts) : InPlaneOf(ts[k], n)
            /\ RAdd(RAdd(RelativeArea(ts[1], n), RelativeArea(ts[2], n)),
                    RelativeArea(ts[3], n)) = R(1)

\* the triangles of both hulls, caps left out, have the area of the input
HullsKeepArea ==
    (CubeCutThroughCentroid /\ (LoopDone \/ HullsCapped)) =>
        LET us == TrianglesOf(NonCapVertices(upperVertices, upperContour, TRUE))
            ls == TrianglesOf(NonCapVertices(lowerVertices, lowerContour, FALSE))
        IN  /\ AllAxisParallel(us) /\ AllAxisParallel(ls)
            /\ RAdd(SumDoubleArea(us), SumDoubleArea(ls))
                 = SumDoubleArea(TrianglesOf(InputVertices(0)))

\* C16: for a cube cut by a plane through its centroid the areas of the
\* non-cap triangles of the upper and of the lower hull add up to the surface
\* area of the original mesh, and the three sub-triangles of every split
\* triangle have together the area of the triangle they come from
C16_AreaPreserved == SplitKeepsArea /\ HullsKeepArea

C16_Witness ==
    /\ CubeCutThroughCentroid /\ HullsCapped
    /\ CountOf({"Straddle"}) = 8
    /\ SumDoubleArea(TrianglesOf(InputVertices(0))) = R(12)

\* C17: a triangle that sliceMesh classifies as OnPlane, and copies whole into
\* the upper hull, has no vertex strictly below the plane together with a
\* vertex strictly above it
C17_OnPlaneNeverCrosses ==
    \A k \in 1..Len(branches) :
        branches[k] = "OnPlane" => ~Straddles(3 * (k - 1))

\* C18: every triangle handed to splitTriangle straddles the plane: it has a
\* vertex at signed distance > 0 and a vertex at signed distance < 0
C18_SplitOnlyStraddles ==
    \A k \in 1..Len(branches) :
        branches[k] = "Straddle" => Straddles(3 * (k - 1))

\* the signed distance of a vertex from the plane through slicePlanePoint
PlaneDistance(index) ==
    Dot(slicePlaneNormal, VSub(Vertex(index).position, slicePlanePoint))

\* C19: the signed distance that classifies a vertex is
\* dot(slicePlaneNormal, v.position - slicePlanePoint): every triangle is
\* classified by the signs of its vertices relative to the plane through the
\* slicePlanePoint of this slice
C19_DistanceFromPlanePoint ==
    \A k \in 1..Len(branches) :
        /\ \A x \in {Index0(3 * (k - 1)), Index1(3 * (k - 1)), Index2(3 * (k - 1))} :
              Distance(x) = PlaneDistance(x)
        /\ branches[k] = Classify(Sign(PlaneDistance(Index0(3 * (k - 1)))),
                                  Sign(PlaneDistance(Index1(3 * (k - 1)))),
                                  Sign(PlaneDistance(Index2(3 * (k - 1)))))

\* p lies on the segment from a to b
OnSegment(p, a, b) ==
    /\ Cross(VSub(p, a), VSub(b, a)) = ZeroVec
    /\ RLe(R(0), Dot(VSub(p, a), VSub(b, a)))
    /\ RLe(Dot(VSub(p, a), VSub(b, a)), Dot(VSub(b, a), VSub(b, a)))

\* the interpolation that produced a contour point: the parameter computed
\* from the distances of the two edge vertices is a number in [0, 1], and the
\* point lies on the edge and on the plane
WellInterpolated(c) ==
    LET dA == Distance(c.edgeVerts[1])
        dB == Distance(c.edgeVerts[2])
        t  == IntersectionParam(dA, dB)
        a  == Vertex(c.edgeVerts[1]).position
        b  == Vertex(c.edgeVerts[2]).position
    IN  /\ RAdd(RAbs(dA), RAbs(dB)) # R(0)
        /\ ~RIsNaN(t) /\ RLe(R(0), t) /\ RLe(t, R(1))
        /\ c.position = <<Lerp(a[1], b[1], t), Lerp(a[2], b[2], t),
                          Lerp(a[3], b[3], t)>>
        /\ OnSegment(c.position, a, b)
        /\ getSideOfPlane(c.position, origWorldPos, slicePlaneNormal) = R(0)

\* C20: for every triangle that reaches splitTriangle both interpolation
\* parameters are well defined and in [0, 1], and each interpolated position
\* lies on the edge between its two source vertices, at signed distance 0
\* from the plane
C20_InterpolationWellDefined ==
    (pc = "loop" /\ LastBranch = "Straddle") =>
        /\ Len(upperContour) = 2 * CountOf({"Straddle"})
        /\ lowerContour = upperContour
        /\ WellInterpolated(upperContour[Len(upperContour) - 1])
        /\ WellInterpolated(upperContour[Len(upperContour)])

\* a triangle with two vertices on the plane and a proper straddle were split
C20_Witness ==
    /\ pc = "loop" /\ LastBranch = "Straddle"
    /\ Len(upperContour) >= 4
    /\ \E k \in 1..Len(upperContour) :
          /\ Distance(upperContour[k].edgeVerts[1]) = R(0)
          /\ upperContour[k].position # Vertex(upperContour[k].edgeVerts[2]).position

\* C21: at every point of the triangle loop the upper and the lower contour
\* list are the same sequence of points, and its length is twice the number
\* of triangles split so far
C21_ContoursEqual ==
    pc = "loop" =>
        /\ upperContour = lowerContour
        /\ Len(upperContour) = 2 * CountOf({"Straddle"})

C21_Witness ==
    /\ pc = "loop" /\ i < Len(Indices)
    /\ CountOf({"Straddle"}) >= 2
    /\ CountOf({"AllAbove", "AllBelow"}) >= 1
    /\ upperContour = lowerContour /\ Len(upperContour) >= 4

\* idx picks the kept points out of the contour, in the contour's order
PicksInOrder(idx, unique, contour) ==
    /\ \A j \in 1..Len(unique) : unique[j] = contour[idx[j]]
    /\ \A j \in 1..(Len(unique) - 1) : idx[j] < idx[j + 1]

\* the point at k is closer than epsilon to a point kept before it
NearEarlierKept(idx, k, contour) ==
    \E j \in DOMAIN idx :
        /\ idx[j] < k
        /\ RLt(DistSq(contour[idx[j]].position, contour[k].position),
               EpsilonSquared)

\* C22: the deduplication of generateCap keeps the contour points in
\* first-occurrence order, keeps a point exactly when no point kept before it
\* is at squared distance below epsilon^2, ends with points that are pairwise
\* at squared distance >= epsilon^2, and drops only points that are within
\* epsilon of an earlier kept point
C22_DedupFirstSeenWins ==
    IsSome(capUnique) =>
        LET unique == Val(capUnique)
        IN  /\ \E idx \in [1..Len(unique) -> 1..Len(capContour)] :
                  /\ PicksInOrder(idx, unique, capContour)
                  /\ \A k \in 1..Len(capContour) :
                        (\E j \in 1..Len(unique) : idx[j] = k)
                            <=> ~NearEarlierKept(idx, k, capContour)
            /\ \A a \in 1..Len(unique), b \in 1..Len(unique) :
                  a # b => RLe(EpsilonSquared,
                               DistSq(unique[a].position, unique[b].position))

\* points at distance epsilon/2, exactly epsilon and more were deduplicated
C22_Witness ==
    /\ IsSome(capUnique)
    /\ Len(capContour) = 4 /\ Len(Val(capUnique)) = 2
    /\ \E a \in 1..4, b \in 1..4 :
          DistSq(capContour[a].position, capContour[b].position) = EpsilonSquared
    /\ \E a \in 1..4, b \in 1..4 :
          /\ capContour[a] # capContour[b]
          /\ RLt(DistSq(capContour[a].position, capContour[b].position),
                 EpsilonSquared)

\* C23: when fewer than 3 contour points were recorded, or fewer than 3 remain
\* after the deduplication, generateCap returns with the hull's vertex list
\* and index list as they were
C23_NoCapBelowThree ==
    (IsSome(capResult)
     /\ (Len(capContour) < 3 \/ ~IsSome(capUnique) \/ Len(Val(capUnique)) < 3)) =>
        /\ Val(capResult).vertices = capVertices
        /\ Val(capResult).indices = capIndices

C23_Witness ==
    /\ IsSome(capResult) /\ IsSome(capUnique)
    /\ Len(capContour) = 4 /\ Len(Val(capUnique)) = 2
    /\ Len(capVertices) = 3
    /\ Val(capResult).vertices = capVertices

\* the k-th index triple (k from 0) of an index list, after the first 'from'
TripleAt(indices, from, k) ==
    <<indices[from + 3 * k + 1], indices[from + 3 * k + 2],
      indices[from + 3 * k + 3]>>

\* C24: with n >= 3 unique contour points generateCap appends n + 1 vertices,
\* the centroid and then the contour points in order, and n triangles, the
\* i-th being (centroid, contour[i], contour[(i+1) mod n]) for the upper hull
\* and the same with the last two indices swapped for the lower hull; what
\* the hull held before is unchanged
C24_FanStructure ==
    (IsSome(capResult) /\ IsSome(capUnique) /\ Len(Val(capUnique)) >= 3) =>
        LET unique == Val(capUnique)
            n      == Len(unique)
            r      == Val(capResult)
            base   == Len(capVertices)
            sum    == SumPositions(unique)
        IN  /\ Len(r.vertices) = base + n + 1
            /\ SubSeq(r.vertices, 1, base) = capVertices
            /\ \A c \in 1..3 :
                  RMul(R(n), r.vertices[base + 1].position[c]) = sum[c]
            /\ \A k \in 1..n :
                  r.vertices[base + 1 + k].position = unique[k].position
            /\ Len(r.indices) = Len(capIndices) + 3 * n
            /\ SubSeq(r.indices, 1, Len(capIndices)) = capIndices
            /\ \A k \in 0..(n - 1) :
                  TripleAt(r.indices, Len(capIndices), k)
                    = IF capIsUpper
                      THEN <<base, base + 1 + k, base + 1 + ((k + 1) % n)>>
                      ELSE <<base, base + 1 + ((k + 1) % n), base + 1 + k>>

C24_Witness ==
    /\ IsSome(capResult) /\ IsSome(capUnique)
    /\ Len(Val(capUnique)) = 3 /\ Len(capContour) = 4
    /\ ~capIsUpper /\ Len(capVertices) = 3
    /\ Len(Val(capResult).vertices) = 7

\* C25: interpolateVertex never fails on vertices with different attributes:
\* the result always has a position, it has a normal exactly when both
\* inputs have one, and a texture coordinate exactly when both have one
C25_MixedAttributes ==
    IsSome(lerpResult) =>
        LET r == Val(lerpResult)
        IN  /\ Len(r.position) = 3
            /\ \A k \in 1..3 : ~RIsNaN(r.position[k])
            /\ IsSome(r.normal) <=> (IsSome(lerpV1.normal) /\ IsSome(lerpV2.normal))
            /\ IsSome(r.texCoord)
                 <=> (IsSome(lerpV1.texCoord) /\ IsSome(lerpV2.texCoord))

C25_Witness ==
    /\ IsSome(lerpResult)
    /\ IsSome(lerpV1.normal) /\ ~IsSome(lerpV2.normal)
    /\ ~IsSome(lerpV1.texCoord) /\ IsSome(lerpV2.texCoord)
    /\ lerpT = Rat(1, 2)
    /\ Val(lerpResult).position = <<R(1), R(0), R(-1)>>
    /\ ~IsSome(Val(lerpResult).normal) /\ ~IsSome(Val(lerpResult).texCoord)

\* sliceMesh has left the triangle loop and, unless it returned null, has
\* generated the caps: the hull buffers are complete
BuffersComplete == pc \in {"createUpper", "createLower", "offset", "returned"}

\* C26: sliceMesh keeps nothing from one call to the next and only reads its
\* input: a second call with the same mesh, plane and object position finds
\* the mesh as the first found it and builds the same hull buffers
C26_CallsIndependent ==
    (IsSome(prevCall) /\ BuffersComplete) =>
        /\ mesh = Val(prevCall).mesh
        /\ Buffers = Val(prevCall).buffers

C26_Witness ==
    /\ IsSome(prevCall) /\ pc = "offset"
    /\ sliceResult = "none" /\ failures = 1
    /\ Len(objects) = 4
    /\ Len(upperVertices) > 3 /\ Len(lowerVertices) > 3
    /\ CountOf({"Straddle"}) >= 1
    /\ Buffers = Val(prevCall).buffers

\* the fruit is in the sword's cache
InCache(cache, f) == \E k \in 1..Len(cache) : cache[k] = f

\* C27: whatever VRSword.update calls, cache refreshes and direct onHit
\* calls happen, addScore is called at most once for a fruit and its object
\* is destroyed at most once, and a fruit whose isDestroyed flag is set is
\* neither put back into the sword's cache nor handed to hitFruit again
C27_AtMostOnce ==
    [][\A f \in FruitIds :
          /\ addScoreCalls'[f] <= 1
          /\ destroyCalls'[f] <= 1
          /\ hitFruitCalls'[f] <= 1
          /\ fruits[f].isDestroyed =>
                /\ hitFruitCalls'[f] = hitFruitCalls[f]
                /\ InCache(sliceableFruits', f) => InCache(sliceableFruits, f)]_vars

C27_Witness ==
    /\ addScoreCalls[1] = 1 /\ destroyCalls[1] = 1 /\ hitFruitCalls[1] = 0
    /\ hitFruitCalls[2] = 1 /\ fruits[2].isDestroyed /\ ObjectActive(fruits[2])
    /\ Abs(currentPos - fruits[2].pos) <= HitRadius
    /\ alwaysCheckHits /\ cacheRefreshTimer = 0
    /\ sliceableFruits = <<>>
    /\ score = PointValue

\* the index list is made of whole triangles whose corners are vertices of
\* the hull
ValidIndexList(vertices, indices) ==
    /\ Len(indices) % 3 = 0
    /\ \A k \in 1..Len(indices) : 0 <= indices[k] /\ indices[k] < Len(vertices)

\* C28: after every addTriangle and every generateCap call the index list of
\* the hull has a length that is a multiple of 3, and every index is at least
\* 0 and below the number of vertices of the hull
C28_IndicesValid ==
    /\ ValidIndexList(upperVertices, upperIndices)
    /\ ValidIndexList(lowerVertices, lowerIndices)

C28_Witness ==
    /\ pc = "createUpper"
    /\ CountOf({"Straddle"}) >= 1 /\ CountOf({"AllAbove", "AllBelow"}) >= 1
    /\ HullsCapped
    \* a cap was appended: its fan uses the centroid's index again and again
    /\ \E k \in 1..Len(upperIndices) : upperIndices[k] # k - 1
    /\ \E k \in 1..Len(upperIndices) : upperIndices[k] = Len(upperVertices) - 1
    /\ \E k \in 1..Len(lowerIndices) : lowerIndices[k] = Len(lowerVertices) - 1
    /\ ValidIndexList(upperVertices, upperIndices)

\* the last three entries of an index list
LastTriple(indices) == SubSeq(indices, Len(indices) - 2, Len(indices))

\* the index written for an original vertex is a slot of the hull, and the
\* slot is the one the vertex was pushed at
RefersTo(hull, sources, idx, original) ==
    /\ 0 <= idx /\ idx < Len(hull.vertices)
    /\ sources[idx + 1] = original
    /\ hull.vertices[idx + 1] = Positions[original + 1]

\* the triangle copied last has hull indices that refer to its own vertices
CopiedFaithfully(hull, sources, k) ==
    LET idx == LastTriple(hull.indices)
        original == <<Index0(k), Index1(k), Index2(k)>>
    IN  /\ Len(hull.indices) >= 3
        /\ \A c \in 1..3 : RefersTo(hull, sources, idx[c], original[c])
        /\ \A c \in 1..3, d \in 1..3 :
              original[c] # original[d] => idx[c] # idx[d]

\* C29: in the non-splitting Slicer, the three hull indices written for a
\* triangle copied to a hull refer to the slots that hold its three original
\* vertices: distinct vertices get distinct indices, each index is the slot
\* the vertex's position was pushed at, and no index reaches the vertex count
C29_IndicesReferToOwnVertices ==
    (plainPc = "loop" /\ plainI > 0) =>
        /\ AllUpper(plainI - 3) =>
              CopiedFaithfully(plainUpper, plainSources.upper, plainI - 3)
        /\ (~AllUpper(plainI - 3) /\ AllLower(plainI - 3)) =>
              CopiedFaithfully(plainLower, plainSources.lower, plainI - 3)

\* the objects of the scene as they were when the running sliceMesh call began:
\* all but the upper hull, if this call has created it
ObjectsBeforeCall ==
    SubSeq(objects, 1, Len(objects) - (IF upperHull # 0 THEN 1 ELSE 0))

\* this step is a sliceMesh call failing in createMeshObject
SliceFails == pc \in {"createUpper", "createLower"} /\ sliceResult' = "thrown"

\* C30: a slice that fails part-way leaves the scene with the objects it had
\* before the call: when the creation of the lower hull fails after the upper
\* hull was created, no hull object created by the call remains in the scene
C30_FailedSliceLeavesNoObject ==
    [][SliceFails => objects' = ObjectsBeforeCall]_vars

====
